---- MODULE Spec2Model ----
(***************************************************************************)
(* TeleChat: two Telegram webhook bots (link bot, task bot) in front of a  *)
(* Notion database, with in-process session state and a sliding-window     *)
(* rate limiter.                                                           *)
(*                                                                         *)
(* Strings are modelled as sequences of tokens.  A token is a run of       *)
(* characters that the code never looks inside: a word, a slash command,   *)
(* a URL, one whitespace character (" ") or the payload delimiter ":".     *)
(* trim, toLowerCase, startsWith, replace, split and length are computed   *)
(* on that representation.                                                 *)
(***************************************************************************)
EXTENDS Integers, Sequences, FiniteSets, TLC

VARIABLES
    route,            \* which entry point this process serves
    now,              \* Date.now()
    allowedUsers,     \* getAllowedUserIds(): parsed ALLOWED_USER_IDS
    tempLinks,        \* lib/memory.ts       Map chatId -> url
    rateLimitMap,     \* lib/memory.ts       Map userId -> timestamps
    searchMode,       \* lib/memory.ts       Map chatId -> boolean
    deleteMode,       \* lib/memory.ts       Map chatId -> boolean
    newCategoryMode,  \* lib/memory.ts       Map chatId -> boolean
    editMode,         \* lib/todo-memory.ts  Map chatId -> {pageId, field}
    todoRateLimitMap, \* lib/todo-memory.ts  Map userId -> timestamps
    pages,            \* Notion link database: pages in creation order
    options,          \* Notion link database: Category select options
    todos,            \* Notion task database: pages in creation order
    ev,               \* the inbound event (or direct call) handled last
    sent,             \* sendMessage calls of the last event
    answers,          \* answerCallbackQuery calls of the last event
    calls,            \* Notion client calls of the last event
    steps,            \* order of checks and dispatch in the last event
    recorded,         \* log of direct recordRequest calls: userId -> times
    inflight          \* handleMessage invocations that have not returned yet

vars == <<route, now, allowedUsers, tempLinks, rateLimitMap, searchMode,
          deleteMode, newCategoryMode, editMode, todoRateLimitMap, pages,
          options, todos, ev, sent, answers, calls, steps, recorded,
          inflight>>

-----------------------------------------------------------------------------
(* Bounds and input sets *)

MaxTicks == 1          \* clock advances per behaviour
MaxEntries == 11       \* timestamps held by the rate limiter harness

Users == {1, 2}
Chats == {1, 2}
NoUser == 0            \* message.from undefined: userId is falsy

\* no invocation is tracked: every handler runs from its first statement to
\* its return before the next event arrives
NoneInFlight == [pc |-> <<>>, running |-> 0]

-----------------------------------------------------------------------------
(* lib/config.ts *)

maxRequests == 10
windowMs == 60000

CATEGORIES == << <<"Work">>, <<"Study">>, <<"Video">>, <<"Other">> >>

InSeq(x, s) == \E i \in 1..Len(s) : s[i] = x

\* variant of isUserAuthorized: the allow-list is ignored
isUserAuthorizedOpen(userId) == userId = userId

isUserAuthorized(userId) ==
    Len(allowedUsers) = 0 \/ InSeq(userId, allowedUsers)

-----------------------------------------------------------------------------
(* lib/memory.ts, lib/todo-memory.ts: sliding-window rate limiter *)

\* variant of validRequests: a timestamp exactly windowMs old is retained
validRequestsInclusive(userRequests, t) ==
    LET valid(timestamp) == t - timestamp <= windowMs
    IN  SelectSeq(userRequests, valid)

\* userRequests.filter(timestamp => now - timestamp < RATE_LIMIT.windowMs)
validRequests(userRequests, t) ==
    LET valid(timestamp) == t - timestamp < windowMs
    IN  SelectSeq(userRequests, valid)

\* the map after isRateLimited(userId)
isRateLimitedMap(map, userId, t) ==
    [map EXCEPT ![userId] = validRequests(map[userId], t)]

\* variant of isRateLimited: a window of exactly maxRequests still admits
isRateLimitedAbove(map, userId, t) ==
    Len(validRequests(map[userId], t)) > maxRequests

\* the value isRateLimited(userId) returns
isRateLimited(map, userId, t) ==
    Len(validRequests(map[userId], t)) >= maxRequests

\* the map after recordRequest(userId)
recordRequest(map, userId, t) ==
    [map EXCEPT ![userId] = Append(validRequests(map[userId], t), t)]

getRemainingRequests(map, userId, t) ==
    LET n == maxRequests - Len(validRequests(map[userId], t))
    IN  IF n > 0 THEN n ELSE 0

-----------------------------------------------------------------------------
(* Strings as token sequences *)

SlashTokens == {"/start", "/help", "/list", "/search", "/delete", "/cancel",
                "/CANCEL", "/x"}
UrlTokens == {"https://a.example", "HTTPS://b.example"}

\* String.prototype.toLowerCase, token by token
lowerToken(tok) ==
    CASE tok = "/CANCEL" -> "/cancel"
      [] tok = "HTTPS://b.example" -> "https://b.example"
      [] tok = "Work" -> "work"
      [] tok = "Study" -> "study"
      [] tok = "Video" -> "video"
      [] tok = "Other" -> "other"
      [] tok = "Recipes" -> "recipes"
      [] tok = "RECIPES" -> "recipes"
      [] tok = "Travel" -> "travel"
      [] tok = "L" -> "l"
      [] OTHER -> tok

toLowerCase(str) == [i \in 1..Len(str) |-> lowerToken(str[i])]

\* number of characters of a token
tokenLength(tok) ==
    CASE tok = " " -> 1
      [] tok = ":" -> 1
      [] tok = "l" -> 1
      [] tok = "L" -> 1
      [] tok = "/x" -> 2
      [] tok = "W50" -> 50
      [] tok = "W51" -> 51
      [] tok = "W500" -> 500
      [] tok = "W501" -> 501
      [] tok \in UrlTokens -> 17
      [] OTHER -> 7

RECURSIVE length(_)
length(str) ==
    IF str = <<>> THEN 0 ELSE tokenLength(Head(str)) + length(Tail(str))

\* String.prototype.trim
RECURSIVE trimStart(_)
trimStart(str) ==
    IF str # <<>> /\ Head(str) = " " THEN trimStart(Tail(str)) ELSE str

RECURSIVE trimEnd(_)
trimEnd(str) ==
    IF str # <<>> /\ str[Len(str)] = " "
    THEN trimEnd(SubSeq(str, 1, Len(str) - 1))
    ELSE str

trim(str) == trimEnd(trimStart(str))

\* String.prototype.startsWith for a prefix that ends on a token boundary
startsWith(str, prefix) ==
    Len(str) >= Len(prefix) /\ SubSeq(str, 1, Len(prefix)) = prefix

\* text.startsWith('/')
startsWithSlash(str) == str # <<>> /\ Head(str) \in SlashTokens

\* String.prototype.replace(pattern, ''): the first occurrence is removed
replace(str, pattern) ==
    LET k == Len(pattern)
        hits == {i \in 1..(Len(str) - k + 1) : SubSeq(str, i, i + k - 1) = pattern}
    IN  IF hits = {} THEN str
        ELSE LET i == CHOOSE j \in hits : \A h \in hits : j <= h
             IN  SubSeq(str, 1, i - 1) \o SubSeq(str, i + k, Len(str))

\* command.toLowerCase().split(' ')[0]
firstWord(str) ==
    LET low == toLowerCase(str)
        sp == {i \in 1..Len(low) : low[i] = " "}
    IN  IF sp = {} THEN low
        ELSE SubSeq(low, 1, (CHOOSE j \in sp : \A h \in sp : j <= h) - 1)

\* lib/telegram.ts isUrl: /^https?:\/\//i.test(text.trim())
isUrl(str) == trim(str) # <<>> /\ Head(trim(str)) \in UrlTokens

\* lib/telegram.ts extractUrl: first match of /(https?:\/\/[^\s]+)/gi, or
\* null (the empty sequence here)
extractUrl(str) ==
    LET hits == {i \in 1..Len(str) : str[i] \in UrlTokens}
    IN  IF hits = {} THEN <<>>
        ELSE LET i == CHOOSE j \in hits : \A h \in hits : j <= h
                 sp == {j \in i..Len(str) : str[j] = " "}
                 e == IF sp = {} THEN Len(str)
                      ELSE (CHOOSE j \in sp : \A h \in sp : j <= h) - 1
             IN  SubSeq(str, i, e)

\* new URL(url) does not throw: one URL token and nothing after the host
validUrl(url) == Len(url) = 1 /\ url[1] \in UrlTokens

-----------------------------------------------------------------------------
(* Events *)

NoEvent == [kind |-> "none", chat |-> 0, user |-> 0, ret |-> FALSE, rem |-> 0]

CallEvent(kind, userId, ret, rem) ==
    [kind |-> kind, chat |-> 0, user |-> userId, ret |-> ret, rem |-> rem]

-----------------------------------------------------------------------------
(* Handler state: the maps and the database as one record that the helper   *)
(* operators below thread through a handler, call after call.              *)

MaxPages == 1          \* pages the link database accepts

\* what the Notion API does with the calls of one event
Outcomes == {"ok", "query_fails", "query_stale", "create_fails",
             "retrieve_fails", "update_fails"}

sendMessage(S, chatId, msg, buttons) ==
    [S EXCEPT !.sent = Append(@, [chat |-> chatId, msg |-> msg,
                                  buttons |-> buttons])]

answerCallbackQuery(S, text) == [S EXCEPT !.answers = Append(@, text)]

notionCall(S, op, args, ok) ==
    [S EXCEPT !.calls = Append(@, [op |-> op, args |-> args, ok |-> ok])]

step(S, name) == [S EXCEPT !.steps = Append(@, name)]

\* lib/memory.ts accessors
\* variant of storeTempLink: a URL that is pending is not overwritten
storeTempLinkKeepsFirst(S, chatId, url) ==
    IF S.tempLinks[chatId] # <<>> THEN S
    ELSE [S EXCEPT !.tempLinks[chatId] = <<url>>]

storeTempLink(S, chatId, url) == [S EXCEPT !.tempLinks[chatId] = <<url>>]
\* variant of removeTempLink: the whole map is cleared
removeTempLinkClears(S, chatId) == [S EXCEPT !.tempLinks = [c \in Chats |-> <<>>]]
removeTempLink(S, chatId) == [S EXCEPT !.tempLinks[chatId] = <<>>]
\* getTempLink(chatId) is undefined or a string; `!url` is true for both
\* undefined and the empty string
hasTempLink(S, chatId) ==
    S.tempLinks[chatId] # <<>> /\ S.tempLinks[chatId][1] # <<>>
getTempLink(S, chatId) == S.tempLinks[chatId][1]
enableSearchMode(S, chatId) == [S EXCEPT !.searchMode[chatId] = TRUE]
disableSearchMode(S, chatId) == [S EXCEPT !.searchMode[chatId] = FALSE]
isInSearchMode(S, chatId) == S.searchMode[chatId]
enableNewCategoryMode(S, chatId) == [S EXCEPT !.newCategoryMode[chatId] = TRUE]
disableNewCategoryMode(S, chatId) == [S EXCEPT !.newCategoryMode[chatId] = FALSE]
isInNewCategoryMode(S, chatId) == S.newCategoryMode[chatId]

-----------------------------------------------------------------------------
(* lib/notion.ts over a model of the Notion database *)

pageIdOf(i) == CASE i = 1 -> "p1" [] i = 2 -> "p2" [] i = 3 -> "p3" [] OTHER -> "p0"
pageIndexOf(id) ==
    CASE id = <<"p1">> -> 1 [] id = <<"p2">> -> 2 [] id = <<"p3">> -> 3 [] OTHER -> 0

\* pages a databases.query sees: archived pages never, the page written last
\* not yet when the read is stale
visiblePages(S, o) ==
    {i \in 1..Len(S.pages) :
        /\ ~S.pages[i].archived
        /\ ~(o = "query_stale" /\ i = Len(S.pages))}

Max(set) == IF set = {} THEN 0 ELSE CHOOSE x \in set : \A y \in set : y <= x

\* getMaxNr: 0 when the query fails
getMaxNr(S, o) ==
    IF o = "query_fails" THEN 0
    ELSE Max({S.pages[i].nr : i \in visiblePages(S, o)})

\* saveToNotion: [s |-> state after, success |-> result.success]
saveToNotion(S, url, category, o) ==
    IF ~validUrl(url) THEN [s |-> S, success |-> FALSE]
    ELSE LET S1 == notionCall(S, "databases.query", <<<<"Nr">>>>, o # "query_fails")
             nextNr == getMaxNr(S, o) + 1
             created == o # "create_fails" /\ Len(S.pages) < MaxPages
             S2 == notionCall(S1, "pages.create", <<url, category>>, created)
         IN  IF created
             THEN [s |-> [S2 EXCEPT !.pages = Append(@,
                              [url |-> url, category |-> category,
                               nr |-> nextNr, archived |-> FALSE])],
                   success |-> TRUE]
             ELSE [s |-> S2, success |-> FALSE]

\* checkDuplicateUrl: false when the query fails
checkDuplicateUrl(S, url, o) ==
    [s |-> notionCall(S, "databases.query", <<<<"URL">>, url>>, o # "query_fails"),
     r |-> /\ o # "query_fails"
           /\ \E i \in visiblePages(S, o) : S.pages[i].url = url]

\* the page indices a query returns, newest first
RECURSIVE newestFirst(_)
newestFirst(set) ==
    IF set = {} THEN <<>>
    ELSE <<Max(set)>> \o newestFirst(set \ {Max(set)})

\* getRecentLinks: [] when the query fails
getRecentLinks(S, o) ==
    [s |-> notionCall(S, "databases.query", <<<<"Created">>>>, o # "query_fails"),
     r |-> IF o = "query_fails" THEN <<>> ELSE newestFirst(visiblePages(S, o))]

\* Notion's `contains` filter on Title (the host name) and URL
contains(url, keyword) == keyword = url \/ keyword = <<"example">>

\* searchLinks: [] when the query fails
searchLinks(S, keyword, o) ==
    [s |-> notionCall(S, "databases.query", <<<<"Title", "URL">>, keyword>>,
                      o # "query_fails"),
     r |-> IF o = "query_fails" THEN <<>>
           ELSE newestFirst({i \in visiblePages(S, o) :
                               contains(S.pages[i].url, keyword)})]

\* deleteLink: archives the page; false when the update throws
deleteLink(S, pageId, o) ==
    LET i == pageIndexOf(pageId)
        ok == o # "update_fails" /\ i \in 1..Len(S.pages)
        S1 == notionCall(S, "pages.update", <<pageId>>, ok)
    IN  [s |-> IF ok THEN [S1 EXCEPT !.pages[i].archived = TRUE] ELSE S1,
         r |-> ok]

\* addCategory
\* variant of addCategory: existing options are compared case-sensitively
addCategoryCaseSensitive(S, categoryName, o) ==
    LET S1 == notionCall(S, "databases.retrieve", <<>>, o # "retrieve_fails")
        exists == \E i \in 1..Len(S.options) : S.options[i] = categoryName
        S2 == notionCall(S1, "databases.update", <<categoryName>>, o # "update_fails")
    IN  IF o = "retrieve_fails" THEN [s |-> S1, r |-> FALSE]
        ELSE IF exists THEN [s |-> S1, r |-> TRUE]
        ELSE IF o = "update_fails" THEN [s |-> S2, r |-> FALSE]
        ELSE [s |-> [S2 EXCEPT !.options = Append(@, categoryName)], r |-> TRUE]

addCategory(S, categoryName, o) ==
    LET S1 == notionCall(S, "databases.retrieve", <<>>, o # "retrieve_fails")
        exists == \E i \in 1..Len(S.options) :
                     toLowerCase(S.options[i]) = toLowerCase(categoryName)
        S2 == notionCall(S1, "databases.update", <<categoryName>>, o # "update_fails")
    IN  IF o = "retrieve_fails" THEN [s |-> S1, r |-> FALSE]
        ELSE IF exists THEN [s |-> S1, r |-> TRUE]
        ELSE IF o = "update_fails" THEN [s |-> S2, r |-> FALSE]
        ELSE [s |-> [S2 EXCEPT !.options = Append(@, categoryName)], r |-> TRUE]

-----------------------------------------------------------------------------
(* lib/telegram.ts *)

createCategoryButtons ==
    [i \in 1..Len(CATEGORIES) |-> <<"category", ":">> \o CATEGORIES[i]]

sendCategoryButtons(S, chatId, msg) ==
    sendMessage(S, chatId, msg, createCategoryButtons)

createDeleteButton(id) == << <<"delete", ":", id>> >>

-----------------------------------------------------------------------------
(* app/api/telegram/route.ts: the link bot *)

NoButtons == <<>>

\* the messages for a list of page indices, one per link with its delete button
RECURSIVE sendLinks(_, _, _)
sendLinks(S, chatId, links) ==
    IF links = <<>> THEN S
    ELSE sendLinks(sendMessage(S, chatId, "link",
                               createDeleteButton(pageIdOf(Head(links)))),
                   chatId, Tail(links))

handleListCommand(S, chatId, o) ==
    LET q == getRecentLinks(S, o)
    IN  IF Len(q.r) = 0
        THEN sendMessage(q.s, chatId, "no_links", NoButtons)
        ELSE sendLinks(sendMessage(q.s, chatId, "recent_links", NoButtons),
                       chatId, q.r)

\* variant of handleSearchCommand: search mode is enabled without a reply
handleSearchCommandSilent(S, chatId) == enableSearchMode(S, chatId)

handleSearchCommand(S, chatId) ==
    sendMessage(enableSearchMode(S, chatId), chatId, "search_enabled", NoButtons)

handleCommand(S, chatId, command, o) ==
    LET cmd == firstWord(command)
    IN  CASE cmd = <<"/start">> -> sendMessage(S, chatId, "help", NoButtons)
          [] cmd = <<"/help">> -> sendMessage(S, chatId, "help", NoButtons)
          [] cmd = <<"/list">> -> handleListCommand(S, chatId, o)
          [] cmd = <<"/search">> -> handleSearchCommand(S, chatId)
          [] cmd = <<"/delete">> -> sendMessage(S, chatId, "delete_hint", NoButtons)
          [] OTHER -> sendMessage(S, chatId, "unknown_command", NoButtons)

handleUrlMessage(S, chatId, url, o) ==
    LET d == checkDuplicateUrl(S, url, o)
    IN  IF d.r
        THEN sendMessage(d.s, chatId, "duplicate",
                         << <<"force_save", ":">> \o url, <<"cancel">> >>)
        ELSE sendCategoryButtons(storeTempLink(d.s, chatId, url), chatId,
                                 "choose_category")

\* variant of handleCategorySelection: the missing-URL check is skipped
handleCategorySelectionUnchecked(S, chatId, category, o) ==
    LET url == IF S.tempLinks[chatId] = <<>> THEN <<>> ELSE S.tempLinks[chatId][1]
        result == saveToNotion(S, url, category, o)
    IN  IF result.success
        THEN removeTempLink(
                 sendMessage(answerCallbackQuery(result.s, "Saved successfully!"),
                             chatId, "saved", NoButtons),
                 chatId)
        ELSE sendMessage(answerCallbackQuery(result.s, "Error saving"),
                         chatId, "error_saving", NoButtons)

handleCategorySelection(S, chatId, category, o) ==
    IF ~hasTempLink(S, chatId)
    THEN sendMessage(answerCallbackQuery(S, "URL not found. Please send it again."),
                     chatId, "session_expired", NoButtons)
    ELSE LET result == saveToNotion(S, getTempLink(S, chatId), category, o)
         IN  IF result.success
             THEN removeTempLink(
                      sendMessage(answerCallbackQuery(result.s, "Saved successfully!"),
                                  chatId, "saved", NoButtons),
                      chatId)
             ELSE sendMessage(answerCallbackQuery(result.s, "Error saving"),
                              chatId, "error_saving", NoButtons)

\* variant of handleNewCategoryInput: a successful save leaves the pending
\* URL in place
handleNewCategoryInputKeepsLink(S, chatId, categoryName, o) ==
    LET trimmedName == trim(categoryName)
    IN  IF length(trimmedName) = 0
        THEN sendMessage(S, chatId, "name_empty", NoButtons)
        ELSE IF length(trimmedName) > 50
        THEN sendMessage(S, chatId, "name_too_long", NoButtons)
        ELSE IF ~hasTempLink(S, chatId)
        THEN sendMessage(disableNewCategoryMode(S, chatId), chatId,
                         "session_expired", NoButtons)
        ELSE LET added == addCategory(S, trimmedName, o)
                 result == saveToNotion(added.s, getTempLink(S, chatId),
                                        trimmedName, o)
             IN  IF ~added.r
                 THEN sendMessage(added.s, chatId, "error_adding_category", NoButtons)
                 ELSE IF result.success
                 THEN disableNewCategoryMode(
                          sendMessage(result.s, chatId, "saved_new", NoButtons),
                          chatId)
                 ELSE sendMessage(result.s, chatId, "error_saving", NoButtons)

handleNewCategoryInput(S, chatId, categoryName, o) ==
    LET trimmedName == trim(categoryName)
    IN  IF toLowerCase(categoryName) = <<"/cancel">>
        THEN sendMessage(removeTempLink(disableNewCategoryMode(S, chatId), chatId),
                         chatId, "cancelled", NoButtons)
        ELSE IF length(trimmedName) = 0
        THEN sendMessage(S, chatId, "name_empty", NoButtons)
        ELSE IF length(trimmedName) > 50
        THEN sendMessage(S, chatId, "name_too_long", NoButtons)
        ELSE IF ~hasTempLink(S, chatId)
        THEN sendMessage(disableNewCategoryMode(S, chatId), chatId,
                         "session_expired", NoButtons)
        ELSE LET url == getTempLink(S, chatId)
                 added == addCategory(S, trimmedName, o)
                 result == saveToNotion(added.s, url, trimmedName, o)
             IN  IF ~added.r
                 THEN sendMessage(added.s, chatId, "error_adding_category", NoButtons)
                 ELSE IF result.success
                 THEN removeTempLink(disableNewCategoryMode(
                          sendMessage(result.s, chatId, "saved_new", NoButtons),
                          chatId), chatId)
                 ELSE sendMessage(result.s, chatId, "error_saving", NoButtons)

handleSearchQuery(S, chatId, keyword, o) ==
    IF toLowerCase(keyword) = <<"/cancel">>
    THEN sendMessage(disableSearchMode(S, chatId), chatId, "search_cancelled",
                     NoButtons)
    ELSE LET q == searchLinks(S, keyword, o)
             S1 == disableSearchMode(q.s, chatId)
         IN  IF Len(q.r) = 0
             THEN sendMessage(S1, chatId, "no_results", NoButtons)
             ELSE sendLinks(sendMessage(S1, chatId, "search_results", NoButtons),
                            chatId, q.r)

handleDeleteLink(S, chatId, pageId, o) ==
    LET d == deleteLink(S, pageId, o)
    IN  IF d.r
        THEN sendMessage(answerCallbackQuery(d.s, "Deleted successfully!"),
                         chatId, "deleted", NoButtons)
        ELSE sendMessage(answerCallbackQuery(d.s, "Error deleting"),
                         chatId, "error_deleting", NoButtons)

\* after the authorization and rate-limit checks: command parsing and mode
\* dispatch
dispatchMessage(S, chatId, text, o) ==
    IF startsWithSlash(text)
    THEN handleCommand(step(S, "command"), chatId, text, o)
    ELSE IF isInSearchMode(S, chatId)
    THEN handleSearchQuery(step(S, "search"), chatId, text, o)
    ELSE IF isInNewCategoryMode(S, chatId)
    THEN handleNewCategoryInput(step(S, "new_category"), chatId, text, o)
    ELSE IF isUrl(text)
    THEN handleUrlMessage(step(S, "url"), chatId, text, o)
    ELSE IF extractUrl(text) # <<>>
    THEN handleUrlMessage(step(S, "url"), chatId, extractUrl(text), o)
    ELSE sendMessage(step(S, "default"), chatId, "fallback", NoButtons)

\* variant of handleMessage: the rate limit is checked before authorization
handleMessageRateFirst(S, chatId, userId, rawText, t, o) ==
    LET S1 == step(S, "rate_limit")
    IN  IF userId \in DOMAIN S.rateLimitMap /\ isRateLimited(S.rateLimitMap, userId, t)
        THEN sendMessage(S1, chatId, "rate_limited", NoButtons)
        ELSE IF userId = NoUser \/ ~isUserAuthorized(userId)
        THEN sendMessage(step(S1, "authorization"), chatId, "unauthorized", NoButtons)
        ELSE dispatchMessage(
                 [step(step(S1, "authorization"), "record") EXCEPT
                     !.rateLimitMap = recordRequest(@, userId, t)],
                 chatId, trim(rawText), o)

handleMessage(S, chatId, userId, rawText, t, o) ==
    LET text == trim(rawText)
        S1 == step(S, "authorization")
    IN  IF userId = NoUser \/ ~isUserAuthorized(userId)
        THEN sendMessage(S1, chatId, "unauthorized", NoButtons)
        ELSE LET S2 == [step(S1, "rate_limit") EXCEPT
                           !.rateLimitMap = isRateLimitedMap(@, userId, t)]
             IN  IF isRateLimited(S1.rateLimitMap, userId, t)
                 THEN sendMessage(S2, chatId, "rate_limited", NoButtons)
                 ELSE dispatchMessage(
                          [step(S2, "record") EXCEPT
                              !.rateLimitMap = recordRequest(@, userId, t)],
                          chatId, text, o)

handleCallbackQuery(S, chatId, userId, data, o) ==
    LET S1 == step(S, "authorization")
    IN  IF ~isUserAuthorized(userId)
        THEN answerCallbackQuery(S1, "Unauthorized")
        ELSE IF data = <<"cancel">>
        THEN sendMessage(answerCallbackQuery(removeTempLink(S1, chatId), "Cancelled"),
                         chatId, "cancelled", NoButtons)
        ELSE IF startsWith(data, <<"force_save", ":">>)
        THEN answerCallbackQuery(
                 sendCategoryButtons(
                     storeTempLink(S1, chatId, replace(data, <<"force_save", ":">>)),
                     chatId, "choose_category"),
                 "")
        ELSE IF startsWith(data, <<"category", ":">>)
        THEN LET category == replace(data, <<"category", ":">>)
             IN  IF category = <<"__other__">>
                 THEN sendMessage(
                          answerCallbackQuery(enableNewCategoryMode(S1, chatId), ""),
                          chatId, "enter_category", NoButtons)
                 ELSE handleCategorySelection(S1, chatId, category, o)
        ELSE IF startsWith(data, <<"delete", ":">>)
        THEN handleDeleteLink(S1, chatId, replace(data, <<"delete", ":">>), o)
        ELSE answerCallbackQuery(S1, "")

-----------------------------------------------------------------------------
(* lib/todo-memory.ts, lib/todo-notion.ts, lib/todo-telegram.ts *)

MaxTodos == 1          \* pages the task database accepts

enableEditMode(S, chatId, pageId, field) ==
    [S EXCEPT !.editMode[chatId] = <<[pageId |-> pageId, field |-> field]>>]
\* variant of disableEditMode: the chat's entry is kept
disableEditModeKeeps(S, chatId) == [S EXCEPT !.editMode[chatId] = S.editMode[chatId]]

disableEditMode(S, chatId) == [S EXCEPT !.editMode[chatId] = <<>>]
isInEditMode(S, chatId) == S.editMode[chatId] # <<>>
getEditMode(S, chatId) == S.editMode[chatId][1]

todoIdOf(i) == CASE i = 1 -> "t1" [] i = 2 -> "t2" [] i = 3 -> "t3" [] OTHER -> "t0"
todoIndexOf(id) ==
    CASE id = <<"t1">> -> 1 [] id = <<"t2">> -> 2 [] id = <<"t3">> -> 3 [] OTHER -> 0

\* pages.update on the task database: throws for an unknown page
todoUpdatable(S, pageId, o) ==
    o # "update_fails" /\ todoIndexOf(pageId) \in 1..Len(S.todos)

\* createTodo: [s, success, id]
createTodo(S, title, priority, o) ==
    LET created == o # "create_fails" /\ Len(S.todos) < MaxTodos
        S1 == notionCall(S, "pages.create", <<title, priority>>, created)
    IN  IF created
        THEN [s |-> [S1 EXCEPT !.todos = Append(@,
                        [title |-> title, status |-> "Pending",
                         priority |-> priority, archived |-> FALSE])],
              success |-> TRUE, id |-> todoIdOf(Len(S.todos) + 1)]
        ELSE [s |-> S1, success |-> FALSE, id |-> "t0"]

\* getPendingTodos: [] when the query fails
getPendingTodos(S, o) ==
    [s |-> notionCall(S, "databases.query", <<<<"Status">>>>, o # "query_fails"),
     r |-> IF o = "query_fails" THEN <<>>
           ELSE newestFirst({i \in 1..Len(S.todos) :
                               /\ ~S.todos[i].archived
                               /\ S.todos[i].status = "Pending"
                               /\ ~(o = "query_stale" /\ i = Len(S.todos))})]

updateTodoTitle(S, pageId, newTitle, o) ==
    LET ok == todoUpdatable(S, pageId, o)
        S1 == notionCall(S, "pages.update", <<pageId, <<"Title">>, newTitle>>, ok)
    IN  [s |-> IF ok THEN [S1 EXCEPT !.todos[todoIndexOf(pageId)].title = newTitle]
               ELSE S1,
         success |-> ok]

updateTodoPriority(S, pageId, priority, o) ==
    LET ok == todoUpdatable(S, pageId, o)
        S1 == notionCall(S, "pages.update", <<pageId, <<"Priority">>, priority>>, ok)
    IN  [s |-> IF ok
               THEN [S1 EXCEPT !.todos[todoIndexOf(pageId)].priority = priority]
               ELSE S1,
         success |-> ok]

markTodoDone(S, pageId, o) ==
    LET ok == todoUpdatable(S, pageId, o)
        S1 == notionCall(S, "pages.update", <<pageId, <<"Status">>, <<"Done">>>>, ok)
    IN  [s |-> IF ok THEN [S1 EXCEPT !.todos[todoIndexOf(pageId)].status = "Done"]
               ELSE S1,
         success |-> ok]

deleteTodo(S, pageId, o) ==
    LET ok == todoUpdatable(S, pageId, o)
        S1 == notionCall(S, "pages.update", <<pageId, <<"archived">>>>, ok)
    IN  [s |-> IF ok THEN [S1 EXCEPT !.todos[todoIndexOf(pageId)].archived = TRUE]
               ELSE S1,
         r |-> ok]

createTaskActionButtons(id) ==
    << <<"done", ":", id>>, <<"edit", ":", id>>, <<"delete", ":", id>> >>

createEditOptionButtons(pageId) ==
    << <<"edit_title", ":">> \o pageId, <<"edit_priority", ":">> \o pageId,
       <<"cancel">> >>

\* variant of createPriorityButtons: the priority is written before the id
createPriorityButtonsSwapped(pageId) ==
    << <<"priority", ":", "High", ":">> \o pageId,
       <<"priority", ":", "Medium", ":">> \o pageId,
       <<"priority", ":", "Low", ":">> \o pageId,
       <<"cancel">> >>

createPriorityButtons(pageId) ==
    << <<"priority", ":">> \o pageId \o <<":", "High">>,
       <<"priority", ":">> \o pageId \o <<":", "Medium">>,
       <<"priority", ":">> \o pageId \o <<":", "Low">>,
       <<"cancel">> >>

\* variant of split: a payload with a delimiter always yields three parts
splitLoose(str) ==
    LET seps == {i \in 1..Len(str) : str[i] = ":"}
    IN  IF seps = {} THEN <<str>>
        ELSE LET i == CHOOSE j \in seps : \A h \in seps : j <= h
             IN  <<SubSeq(str, 1, i - 1), SubSeq(str, i + 1, Len(str)), <<>>>>

\* String.prototype.split(':')
RECURSIVE split(_)
split(str) ==
    LET seps == {i \in 1..Len(str) : str[i] = ":"}
    IN  IF seps = {} THEN <<str>>
        ELSE LET i == CHOOSE j \in seps : \A h \in seps : j <= h
             IN  <<SubSeq(str, 1, i - 1)>> \o split(SubSeq(str, i + 1, Len(str)))

-----------------------------------------------------------------------------
(* app/api/todo/route.ts: the task bot *)

RECURSIVE sendTodos(_, _, _)
sendTodos(S, chatId, list) ==
    IF list = <<>> THEN S
    ELSE sendTodos(sendMessage(S, chatId, "todo",
                               createTaskActionButtons(todoIdOf(Head(list)))),
                   chatId, Tail(list))

todoHandleCommand(S, chatId, command) ==
    LET cmd == firstWord(command)
    IN  CASE cmd = <<"/start">> -> sendMessage(S, chatId, "help", NoButtons)
          [] cmd = <<"/help">> -> sendMessage(S, chatId, "help", NoButtons)
          [] cmd = <<"/cancel">> ->
                IF isInEditMode(S, chatId)
                THEN sendMessage(disableEditMode(S, chatId), chatId,
                                 "edit_cancelled", NoButtons)
                ELSE sendMessage(S, chatId, "nothing_to_cancel", NoButtons)
          [] OTHER -> sendMessage(S, chatId, "unknown_command", NoButtons)

handleCreateTask(S, chatId, text, o) ==
    IF length(text) = 0
    THEN sendMessage(S, chatId, "task_empty", NoButtons)
    ELSE IF length(text) > 500
    THEN sendMessage(S, chatId, "task_too_long", NoButtons)
    ELSE LET result == createTodo(S, text, <<"Medium">>, o)
         IN  IF result.success
             THEN sendMessage(result.s, chatId, "task_created",
                              createTaskActionButtons(result.id))
             ELSE sendMessage(result.s, chatId, "error_creating", NoButtons)

todoHandleListCommand(S, chatId, o) ==
    LET q == getPendingTodos(S, o)
    IN  IF Len(q.r) = 0
        THEN sendMessage(q.s, chatId, "no_tasks", NoButtons)
        ELSE sendTodos(sendMessage(q.s, chatId, "pending_tasks", NoButtons),
                       chatId, q.r)

\* variant of handleEditTitleInput: a title that is too long ends the edit
handleEditTitleInputGivesUp(S, chatId, newTitle, pageId, o) ==
    IF toLowerCase(newTitle) = <<"/cancel">>
    THEN sendMessage(disableEditMode(S, chatId), chatId, "edit_cancelled", NoButtons)
    ELSE IF length(newTitle) = 0
    THEN sendMessage(S, chatId, "title_empty", NoButtons)
    ELSE IF length(newTitle) > 500
    THEN sendMessage(disableEditMode(S, chatId), chatId, "title_too_long", NoButtons)
    ELSE LET result == updateTodoTitle(S, pageId, newTitle, o)
         IN  IF result.success
             THEN sendMessage(disableEditMode(result.s, chatId), chatId,
                              "task_updated", createTaskActionButtons(pageId[1]))
             ELSE sendMessage(result.s, chatId, "error_updating", NoButtons)

handleEditTitleInput(S, chatId, newTitle, pageId, o) ==
    IF toLowerCase(newTitle) = <<"/cancel">>
    THEN sendMessage(disableEditMode(S, chatId), chatId, "edit_cancelled", NoButtons)
    ELSE IF length(newTitle) = 0
    THEN sendMessage(S, chatId, "title_empty", NoButtons)
    ELSE IF length(newTitle) > 500
    THEN sendMessage(S, chatId, "title_too_long", NoButtons)
    ELSE LET result == updateTodoTitle(S, pageId, newTitle, o)
         IN  IF result.success
             THEN sendMessage(disableEditMode(result.s, chatId), chatId,
                              "task_updated", createTaskActionButtons(pageId[1]))
             ELSE sendMessage(result.s, chatId, "error_updating", NoButtons)

handleMarkDone(S, chatId, pageId, o) ==
    LET result == markTodoDone(S, pageId, o)
    IN  IF result.success
        THEN sendMessage(answerCallbackQuery(result.s, "Marked as done!"),
                         chatId, "marked_done", NoButtons)
        ELSE sendMessage(answerCallbackQuery(result.s, "Error"),
                         chatId, "error_marking_done", NoButtons)

\* variant of handleDeleteTask: deleting the task being edited ends the edit
handleDeleteTaskEndsEdit(S, chatId, pageId, o) ==
    LET d == deleteTodo(S, pageId, o)
        ended == IF isInEditMode(d.s, chatId) /\ getEditMode(d.s, chatId).pageId = pageId
                 THEN disableEditMode(d.s, chatId)
                 ELSE d.s
    IN  IF d.r
        THEN sendMessage(answerCallbackQuery(ended, "Deleted!"),
                         chatId, "deleted", NoButtons)
        ELSE sendMessage(answerCallbackQuery(d.s, "Error"),
                         chatId, "error_deleting", NoButtons)

handleDeleteTask(S, chatId, pageId, o) ==
    LET d == deleteTodo(S, pageId, o)
    IN  IF d.r
        THEN sendMessage(answerCallbackQuery(d.s, "Deleted!"),
                         chatId, "deleted", NoButtons)
        ELSE sendMessage(answerCallbackQuery(d.s, "Error"),
                         chatId, "error_deleting", NoButtons)

\* variant of handlePrioritySelection: the edit target survives the update
handlePrioritySelectionKeepsEdit(S, chatId, pageId, priority, o) ==
    LET result == updateTodoPriority(S, pageId, priority, o)
    IN  IF result.success
        THEN sendMessage(answerCallbackQuery(result.s, "Priority updated!"),
                         chatId, "priority_updated", createTaskActionButtons(pageId[1]))
        ELSE sendMessage(answerCallbackQuery(result.s, "Error"),
                         chatId, "error_updating_priority", NoButtons)

handlePrioritySelection(S, chatId, pageId, priority, o) ==
    LET result == updateTodoPriority(S, pageId, priority, o)
    IN  IF result.success
        THEN sendMessage(
                 answerCallbackQuery(disableEditMode(result.s, chatId),
                                     "Priority updated!"),
                 chatId, "priority_updated", createTaskActionButtons(pageId[1]))
        ELSE sendMessage(answerCallbackQuery(result.s, "Error"),
                         chatId, "error_updating_priority", NoButtons)

\* variant of todoDispatchMessage: every edit target takes the text as a title
todoDispatchMessageAnyEdit(S, chatId, text, o) ==
    IF startsWithSlash(text)
    THEN todoHandleCommand(step(S, "command"), chatId, text)
    ELSE IF toLowerCase(text) = <<"l">>
    THEN todoHandleListCommand(step(S, "list"), chatId, o)
    ELSE IF isInEditMode(S, chatId)
    THEN handleEditTitleInput(step(S, "edit_title"), chatId, text,
                              getEditMode(S, chatId).pageId, o)
    ELSE handleCreateTask(step(S, "default"), chatId, text, o)

\* variant of todoDispatchMessage: an active title edit is looked at before
\* the list shortcut
todoDispatchMessageEditFirst(S, chatId, text, o) ==
    IF startsWithSlash(text)
    THEN todoHandleCommand(step(S, "command"), chatId, text)
    ELSE IF isInEditMode(S, chatId) /\ getEditMode(S, chatId).field = "title"
    THEN handleEditTitleInput(step(S, "edit_title"), chatId, text,
                              getEditMode(S, chatId).pageId, o)
    ELSE IF toLowerCase(text) = <<"l">>
    THEN todoHandleListCommand(step(S, "list"), chatId, o)
    ELSE handleCreateTask(step(S, "default"), chatId, text, o)

todoDispatchMessage(S, chatId, text, o) ==
    IF startsWithSlash(text)
    THEN todoHandleCommand(step(S, "command"), chatId, text)
    ELSE IF toLowerCase(text) = <<"l">>
    THEN todoHandleListCommand(step(S, "list"), chatId, o)
    ELSE IF isInEditMode(S, chatId) /\ getEditMode(S, chatId).field = "title"
    THEN handleEditTitleInput(step(S, "edit_title"), chatId, text,
                              getEditMode(S, chatId).pageId, o)
    ELSE handleCreateTask(step(S, "default"), chatId, text, o)

\* variant of the task bot's handleMessage: the request is recorded before the
\* rate limit is looked at
todoHandleMessageRecordsFirst(S, chatId, userId, rawText, t, o) ==
    LET text == trim(rawText)
        S1 == step(S, "authorization")
    IN  IF userId = NoUser \/ ~isUserAuthorized(userId)
        THEN sendMessage(S1, chatId, "unauthorized", NoButtons)
        ELSE LET S2 == [step(S1, "rate_limit") EXCEPT
                           !.todoRateLimitMap = recordRequest(@, userId, t)]
             IN  IF isRateLimited(S1.todoRateLimitMap, userId, t)
                 THEN sendMessage(S2, chatId, "rate_limited", NoButtons)
                 ELSE todoDispatchMessage(step(S2, "record"), chatId, text, o)

todoHandleMessage(S, chatId, userId, rawText, t, o) ==
    LET text == trim(rawText)
        S1 == step(S, "authorization")
    IN  IF userId = NoUser \/ ~isUserAuthorized(userId)
        THEN sendMessage(S1, chatId, "unauthorized", NoButtons)
        ELSE LET S2 == [step(S1, "rate_limit") EXCEPT
                           !.todoRateLimitMap = isRateLimitedMap(@, userId, t)]
             IN  IF isRateLimited(S1.todoRateLimitMap, userId, t)
                 THEN sendMessage(S2, chatId, "rate_limited", NoButtons)
                 ELSE todoDispatchMessage(
                          [step(S2, "record") EXCEPT
                              !.todoRateLimitMap = recordRequest(@, userId, t)],
                          chatId, text, o)

\* the page id of a one-prefix payload: data.replace(prefix, '')
todoHandleCallbackQuery(S, chatId, userId, data, o) ==
    LET S1 == step(S, "authorization")
    IN  IF ~isUserAuthorized(userId)
        THEN answerCallbackQuery(S1, "Unauthorized")
        ELSE IF data = <<"cancel">>
        THEN sendMessage(answerCallbackQuery(disableEditMode(S1, chatId), "Cancelled"),
                         chatId, "cancelled", NoButtons)
        ELSE IF startsWith(data, <<"done", ":">>)
        THEN handleMarkDone(S1, chatId, replace(data, <<"done", ":">>), o)
        ELSE IF startsWith(data, <<"delete", ":">>)
        THEN handleDeleteTask(S1, chatId, replace(data, <<"delete", ":">>), o)
        ELSE IF startsWith(data, <<"edit", ":">>)
        THEN LET pageId == replace(data, <<"edit", ":">>)
             IN  sendMessage(
                     answerCallbackQuery(enableEditMode(S1, chatId, pageId, "choice"), ""),
                     chatId, "edit_what", createEditOptionButtons(pageId))
        ELSE IF startsWith(data, <<"edit_title", ":">>)
        THEN LET pageId == replace(data, <<"edit_title", ":">>)
             IN  sendMessage(
                     answerCallbackQuery(enableEditMode(S1, chatId, pageId, "title"), ""),
                     chatId, "send_title", NoButtons)
        ELSE IF startsWith(data, <<"edit_priority", ":">>)
        THEN LET pageId == replace(data, <<"edit_priority", ":">>)
             IN  sendMessage(
                     answerCallbackQuery(enableEditMode(S1, chatId, pageId, "priority"), ""),
                     chatId, "select_priority", createPriorityButtons(pageId))
        ELSE IF startsWith(data, <<"priority", ":">>) /\ Len(split(data)) = 3
        THEN handlePrioritySelection(S1, chatId, split(data)[2], split(data)[3], o)
        ELSE answerCallbackQuery(S1, "")

-----------------------------------------------------------------------------
(* Initial state: a fresh process, empty maps, the database as deployed *)

InitCommon ==
    /\ now = 0
    /\ tempLinks = [c \in Chats |-> <<>>]
    /\ rateLimitMap = [u \in Users |-> <<>>]
    /\ searchMode = [c \in Chats |-> FALSE]
    /\ deleteMode = [c \in Chats |-> FALSE]
    /\ newCategoryMode = [c \in Chats |-> FALSE]
    /\ editMode = [c \in Chats |-> <<>>]
    /\ todoRateLimitMap = [u \in Users |-> <<>>]
    /\ pages = <<>>
    /\ options = CATEGORIES
    /\ todos = <<>>
    /\ ev = NoEvent
    /\ sent = <<>>
    /\ answers = <<>>
    /\ calls = <<>>
    /\ steps = <<>>
    /\ recorded = [u \in Users |-> <<>>]
    /\ inflight = NoneInFlight

-----------------------------------------------------------------------------
(* Direct use of the rate limiter API of lib/memory.ts *)

sessionVars == <<tempLinks, searchMode, deleteMode, newCategoryMode, editMode>>
storeVars == <<pages, options, todos>>
outVars == <<sent, answers, calls, steps>>

Entries == Len(recorded[1]) + Len(recorded[2])

CallIsRateLimited(u) ==
    /\ route = "memory"
    /\ rateLimitMap' = isRateLimitedMap(rateLimitMap, u, now)
    /\ ev' = CallEvent("isRateLimited", u, isRateLimited(rateLimitMap, u, now), 0)
    /\ UNCHANGED <<route, now, allowedUsers, sessionVars, todoRateLimitMap,
                   storeVars, outVars, recorded, inflight>>

CallRecordRequest(u) ==
    /\ route = "memory"
    /\ Entries < MaxEntries
    /\ rateLimitMap' = recordRequest(rateLimitMap, u, now)
    /\ recorded' = [recorded EXCEPT ![u] = Append(@, now)]
    /\ ev' = CallEvent("recordRequest", u, FALSE, 0)
    /\ UNCHANGED <<route, now, allowedUsers, sessionVars, todoRateLimitMap,
                   storeVars, outVars, inflight>>

CallGetRemainingRequests(u) ==
    /\ route = "memory"
    /\ ev' = CallEvent("getRemainingRequests", u, FALSE,
                       getRemainingRequests(rateLimitMap, u, now))
    /\ UNCHANGED <<route, now, allowedUsers, sessionVars, rateLimitMap,
                   todoRateLimitMap, storeVars, outVars, recorded, inflight>>

\* the clock moves between two calls; steps of windowMs - 1 and of windowMs
\* put a call just inside and exactly on the window boundary
TickSteps == {windowMs - 1, windowMs}

ticks(t) == (t + windowMs - 1) \div windowMs

Tick(d) ==
    /\ ticks(now) < MaxTicks
    /\ now' = now + d
    /\ ev' = CallEvent("tick", 0, FALSE, 0)
    /\ UNCHANGED <<route, allowedUsers, sessionVars, rateLimitMap,
                   todoRateLimitMap, storeVars, outVars, recorded, inflight>>

InitRate ==
    /\ InitCommon
    /\ route = "memory"
    /\ allowedUsers = <<>>

NextRate ==
    \/ \E u \in Users : CallIsRateLimited(u)
    \/ \E u \in Users : CallRecordRequest(u)
    \/ \E u \in Users : CallGetRemainingRequests(u)
    \/ \E d \in TickSteps : Tick(d)

SpecRate == InitRate /\ [][NextRate]_vars

-----------------------------------------------------------------------------
(* The two webhook routes: one inbound event per invocation *)

Headroom == 2          \* requests the authorized users have left at Init

LinkTexts ==
    { <<"/cancel">>, <<"/search">>, <<"/list">>,
      <<"https://a.example">>, <<"see", " ", "https://a.example">>,
      <<" ", "W50", " ">>, <<"W51">>, <<" ">> }

\* payloads no branch of the link bot's dispatcher takes: no delimiter, a
\* prefix without its delimiter, a prefix of the other bot
MalformedLinkDatas ==
    { <<"bogus">>, <<"delete">>, <<"priority", ":", "t1", ":", "High">> }

LinkDatas ==
    { <<"cancel">>, <<"category", ":", "Work">>, <<"category", ":", "__other__">>,
      <<"force_save", ":", "https://a.example">>, <<"delete", ":", "p1">> }
    \cup MalformedLinkDatas

TodoTexts ==
    { <<"/cancel">>, <<"/x">>, <<"/help">>, <<"L">>, <<"Buy", " ", "milk">>,
      <<"W501">>, <<" ">> }

\* payloads no branch of the task bot's dispatcher takes: no delimiter, a
\* priority payload of two or of four parts, a prefix of the other bot
MalformedTodoDatas ==
    { <<"bogus">>, <<"priority", ":", "t1">>,
      <<"priority", ":", "t1", ":", "High", ":", "x">>,
      <<"category", ":", "Work">> }

TodoDatas ==
    { <<"cancel">>, <<"done", ":", "t1">>, <<"delete", ":", "t1">>,
      <<"edit", ":", "t1">>, <<"edit_title", ":", "t1">>,
      <<"edit_priority", ":", "t2">>, <<"priority", ":", "t1", ":", "High">>,
      <<"priority", ":", "t1", ":", "Urgent">> }
    \cup MalformedTodoDatas

\* the chats events arrive from
EventChats == {1}

\* An event of a user the allow-list rejects is handled without a look at its
\* text or payload: two of each stand for all.
DeniedTexts == { <<"/list">>, <<"https://a.example">> }
DeniedDatas == { <<"cancel">>, <<"category", ":", "Work">> }

\* The Notion outcomes worth distinguishing for an event: an outcome of a call
\* the handler cannot make leaves the event as under "ok".
QueryOutcomes == {"ok", "query_fails", "query_stale"}

TextOutcomes(chatId, userId, text) ==
    IF isRateLimited(rateLimitMap, userId, now) THEN {"ok"}
    ELSE IF startsWithSlash(trim(text))
    THEN IF firstWord(trim(text)) = <<"/list">> THEN QueryOutcomes ELSE {"ok"}
    ELSE IF searchMode[chatId] THEN QueryOutcomes
    ELSE IF newCategoryMode[chatId]
    THEN IF length(trim(text)) \in 1..50 THEN Outcomes ELSE {"ok"}
    ELSE IF extractUrl(trim(text)) # <<>> THEN QueryOutcomes
    ELSE {"ok"}

DataOutcomes(data) ==
    IF Len(data) < 2 \/ data = <<"category", ":", "__other__">> THEN {"ok"}
    ELSE IF Head(data) = "category" THEN QueryOutcomes \cup {"create_fails"}
    ELSE IF Head(data) = "delete" THEN {"ok", "update_fails"}
    ELSE {"ok"}

TodoTextOutcomes(userId, text) ==
    IF isRateLimited(todoRateLimitMap, userId, now) THEN {"ok"}
    ELSE IF startsWithSlash(trim(text)) THEN {"ok"}
    ELSE IF toLowerCase(trim(text)) = <<"l">> THEN QueryOutcomes
    ELSE {"ok", "create_fails", "update_fails"}

TodoDataOutcomes(data) ==
    IF Len(data) >= 2 /\ Head(data) \in {"done", "delete", "priority"}
    THEN {"ok", "update_fails"}
    ELSE {"ok"}

\* the state a handler starts from: nothing sent, answered or called yet
Before ==
    [tempLinks |-> tempLinks, rateLimitMap |-> rateLimitMap,
     searchMode |-> searchMode, newCategoryMode |-> newCategoryMode,
     editMode |-> editMode, todoRateLimitMap |-> todoRateLimitMap,
     pages |-> pages, options |-> options, todos |-> todos,
     sent |-> <<>>, answers |-> <<>>, calls |-> <<>>, steps |-> <<>>]

\* the state a handler leaves behind
After(S) ==
    /\ tempLinks' = S.tempLinks
    /\ rateLimitMap' = S.rateLimitMap
    /\ searchMode' = S.searchMode
    /\ newCategoryMode' = S.newCategoryMode
    /\ editMode' = S.editMode
    /\ todoRateLimitMap' = S.todoRateLimitMap
    /\ pages' = S.pages
    /\ options' = S.options
    /\ todos' = S.todos
    /\ sent' = S.sent
    /\ answers' = S.answers
    /\ calls' = S.calls
    /\ steps' = S.steps
    /\ UNCHANGED <<route, now, allowedUsers, deleteMode, recorded, inflight>>

InboundEvent(kind, chatId, userId) ==
    [kind |-> kind, chat |-> chatId, user |-> userId, ret |-> FALSE, rem |-> 0]

\* POST /api/telegram with update.message
LinkMessage(chatId, userId, text, o) ==
    /\ route = "telegram"
    /\ ev' = InboundEvent("message", chatId, userId)
    /\ \E S \in {handleMessage(Before, chatId, userId, text, now, o)} : After(S)

\* POST /api/telegram with update.callback_query
LinkCallback(chatId, userId, data, o) ==
    /\ route = "telegram"
    /\ ev' = InboundEvent("callback", chatId, userId)
    /\ \E S \in {handleCallbackQuery(Before, chatId, userId, data, o)} : After(S)

\* POST /api/todo with update.message
TodoMessage(chatId, userId, text, o) ==
    /\ route = "todo"
    /\ ev' = InboundEvent("message", chatId, userId)
    /\ \E S \in {todoHandleMessage(Before, chatId, userId, text, now, o)} : After(S)

\* POST /api/todo with update.callback_query
TodoCallback(chatId, userId, data, o) ==
    /\ route = "todo"
    /\ ev' = InboundEvent("callback", chatId, userId)
    /\ \E S \in {todoHandleCallbackQuery(Before, chatId, userId, data, o)} : After(S)

\* Init: the process has served maxRequests - Headroom unknown commands of
\* each authorized user within the current window, the last one in chat 1;
\* they left the session maps and the database as at start-up.
Used == [i \in 1..(maxRequests - Headroom) |-> 0]

Init ==
    /\ route \in {"telegram", "todo"}
    /\ allowedUsers \in {<<1>>}
    /\ now = 0
    /\ tempLinks = [c \in Chats |-> <<>>]
    /\ searchMode = [c \in Chats |-> FALSE]
    /\ deleteMode = [c \in Chats |-> FALSE]
    /\ newCategoryMode = [c \in Chats |-> FALSE]
    /\ editMode = [c \in Chats |-> <<>>]
    /\ rateLimitMap = [u \in Users |->
          IF route = "telegram" /\ isUserAuthorized(u) THEN Used ELSE <<>>]
    /\ todoRateLimitMap = [u \in Users |->
          IF route = "todo" /\ isUserAuthorized(u) THEN Used ELSE <<>>]
    /\ pages = <<>>
    /\ options = CATEGORIES
    /\ todos = <<>>
    /\ ev = InboundEvent("message", 1, 1)
    /\ sent = <<[chat |-> 1, msg |-> "unknown_command", buttons |-> NoButtons]>>
    /\ answers = <<>>
    /\ calls = <<>>
    /\ steps = <<"authorization", "rate_limit", "record", "command">>
    /\ recorded = [u \in Users |-> <<>>]
    /\ inflight = NoneInFlight

\* the users the allow-list admits, and the senders it rejects
Admissible == {u \in Users : isUserAuthorized(u)}
Rejected == (Users \cup {NoUser}) \ Admissible

Next ==
    \/ /\ route = "telegram"
       /\ \E c \in EventChats, u \in Admissible, text \in LinkTexts :
             \E o \in TextOutcomes(c, u, text) : LinkMessage(c, u, text, o)
    \/ /\ route = "telegram"
       /\ \E c \in EventChats, u \in Rejected, text \in DeniedTexts :
             LinkMessage(c, u, text, "ok")
    \/ /\ route = "telegram"
       /\ \E c \in EventChats, u \in Admissible, data \in LinkDatas :
             \E o \in DataOutcomes(data) : LinkCallback(c, u, data, o)
    \/ /\ route = "telegram"
       /\ \E c \in EventChats, u \in Rejected \ {NoUser}, data \in DeniedDatas :
             LinkCallback(c, u, data, "ok")
    \/ /\ route = "todo"
       /\ \E c \in EventChats, u \in Admissible, text \in TodoTexts :
             \E o \in TodoTextOutcomes(u, text) : TodoMessage(c, u, text, o)
    \/ /\ route = "todo"
       /\ \E c \in EventChats, u \in Rejected, text \in DeniedTexts :
             TodoMessage(c, u, text, "ok")
    \/ /\ route = "todo"
       /\ \E c \in EventChats, u \in Admissible, data \in TodoDatas :
             \E o \in TodoDataOutcomes(data) : TodoCallback(c, u, data, o)
    \/ /\ route = "todo"
       /\ \E c \in EventChats, u \in Rejected \ {NoUser}, data \in DeniedDatas :
             TodoCallback(c, u, data, "ok")

Spec == Init /\ [][Next]_vars

-----------------------------------------------------------------------------
(* Claims about the rate limiter *)

\* recordRequest(u) calls made so far whose timestamp is less than windowMs old
RecentlyRecorded(u) ==
    Cardinality({i \in 1..Len(recorded[u]) : now - recorded[u][i] < windowMs})

\* C1: for every user u, an isRateLimited(u) call made when exactly
\* maxRequests recordRequest(u) calls lie within the last windowMs returns
\* true, and one made when windowMs has elapsed since every recordRequest(u)
\* call returns false.
C1_ThresholdAndRecovery ==
    [][\A u \in Users :
         (ev'.kind = "isRateLimited" /\ ev'.user = u) =>
            /\ RecentlyRecorded(u) = maxRequests => ev'.ret
            /\ RecentlyRecorded(u) = 0 => ~ev'.ret]_vars

\* a user who made maxRequests requests is admitted again once they expired
C1_Witness ==
    /\ ev.kind = "isRateLimited"
    /\ ~ev.ret
    /\ Len(recorded[ev.user]) >= maxRequests
    /\ rateLimitMap[ev.user] = <<>>

-----------------------------------------------------------------------------
(* Session vocabulary of the claims *)

\* The mode of a chat is the interpretation the next free text gets, in the
\* order the message handlers test the markers.
ModeOf(search, newCategory, edit, c) ==
    IF search[c] THEN "AwaitingSearchKeyword"
    ELSE IF newCategory[c] THEN "AwaitingCategoryText"
    ELSE IF edit[c] # <<>> THEN "Editing"
    ELSE "Normal"

Mode(c) == ModeOf(searchMode, newCategoryMode, editMode, c)

\* the mode of chat c after the step
ModeAfter(c) == ModeOf(searchMode', newCategoryMode', editMode', c)

HasPendingUrl(c) == tempLinks[c] # <<>> /\ tempLinks[c][1] # <<>>

\* the user passes the authorization and the rate-limit check of the link bot
Admitted(u) ==
    /\ u \in Users
    /\ Len(allowedUsers) = 0 \/ InSeq(u, allowedUsers)
    /\ Cardinality({i \in 1..Len(rateLimitMap[u]) :
                      now - rateLimitMap[u][i] < windowMs}) < maxRequests

\* the successful pages.create calls of an event
Created(callLog) ==
    {i \in 1..Len(callLog) : callLog[i].op = "pages.create" /\ callLog[i].ok}

\* exactly one link record with this url and category was persisted
PersistedOne(url, category) ==
    /\ Cardinality(Created(calls')) = 1
    /\ \A i \in Created(calls') : calls'[i].args = <<url, category>>
    /\ Len(pages') = Len(pages) + 1
    /\ SubSeq(pages', 1, Len(pages)) = pages
    /\ pages'[Len(pages')].url = url
    /\ pages'[Len(pages')].category = category
    /\ ~pages'[Len(pages')].archived

NameTexts == {t \in LinkTexts : length(trim(t)) >= 1 /\ length(trim(t)) <= 50}

-----------------------------------------------------------------------------
(* Claims about the link bot.  In a step of Spec, ev' is the event the step *)
(* handles; ev'.chat and ev'.user are its chat and its sender.              *)

Authorized(u) == Len(allowedUsers) = 0 \/ InSeq(u, allowedUsers)

C3_CancelLeavesCategoryText ==
    [][( /\ ev'.kind = "message"
         /\ Mode(ev'.chat) = "AwaitingCategoryText"
         /\ Admitted(ev'.user)
         /\ LinkMessage(ev'.chat, ev'.user, <<"/cancel">>, "ok") )
       => /\ tempLinks'[ev'.chat] = <<>>
          /\ ~newCategoryMode'[ev'.chat]
          /\ ModeAfter(ev'.chat) = "Normal"]_vars

\* C4: a text /cancel received in AwaitingSearchKeyword mode clears the search
\* mode; the chat is in Normal mode afterwards.
C4_CancelLeavesSearch ==
    [][( /\ ev'.kind = "message"
         /\ Mode(ev'.chat) = "AwaitingSearchKeyword"
         /\ Admitted(ev'.user)
         /\ LinkMessage(ev'.chat, ev'.user, <<"/cancel">>, "ok") )
       => /\ ~searchMode'[ev'.chat]
          /\ ModeAfter(ev'.chat) = "Normal"]_vars

\* C5: the search-mode flag and the new-category-mode flag of a chat are
\* never both set.
C5_ModesExclusive ==
    \A c \in Chats : ~(searchMode[c] /\ newCategoryMode[c])

\* C6: after a cancel button press the chat has no pending URL, no search
\* mode, no new-category mode and no edit target.
C6_CancelButtonResets ==
    [][( /\ ev'.kind = "callback"
         /\ Authorized(ev'.user)
         /\ \/ LinkCallback(ev'.chat, ev'.user, <<"cancel">>, "ok")
            \/ TodoCallback(ev'.chat, ev'.user, <<"cancel">>, "ok") )
       => /\ tempLinks'[ev'.chat] = <<>>
          /\ ~searchMode'[ev'.chat]
          /\ ~newCategoryMode'[ev'.chat]
          /\ editMode'[ev'.chat] = <<>>]_vars

\* the category buttons of the link bot other than the create-new button
CategoryPresses ==
    {d \in LinkDatas : startsWith(d, <<"category", ":">>)
                       /\ d # <<"category", ":", "__other__">>}

\* C7: with a pending URL u, a button press category:<name> (name other than
\* __other__) whose save succeeds persists exactly one record with url u and
\* category name, clears the pending URL and leaves the chat in Normal mode.
C7_CategorySaved ==
    [][( /\ ev'.kind = "callback"
         /\ HasPendingUrl(ev'.chat)
         /\ Authorized(ev'.user)
         /\ Created(calls') # {} )
       => \A d \in CategoryPresses, o \in Outcomes :
             LinkCallback(ev'.chat, ev'.user, d, o)
             => /\ PersistedOne(tempLinks[ev'.chat][1], SubSeq(d, 3, Len(d)))
                /\ tempLinks'[ev'.chat] = <<>>
                /\ ModeAfter(ev'.chat) = "Normal"]_vars

\* C8: a button press category:<name> (a category name; category:__other__ is
\* the separate create-new payload) that arrives when the chat has no
\* pending URL sends the session-expired message, answers the callback and
\* makes no document-store call.
C8_CategoryWithoutPendingUrl ==
    [][( /\ ev'.kind = "callback"
         /\ ~HasPendingUrl(ev'.chat)
         /\ Authorized(ev'.user) )
       => \A d \in CategoryPresses, o \in Outcomes :
             LinkCallback(ev'.chat, ev'.user, d, o)
             => /\ sent' = <<[chat |-> ev'.chat, msg |-> "session_expired",
                              buttons |-> NoButtons]>>
                /\ Len(answers') = 1
                /\ calls' = <<>>
                /\ pages' = pages /\ options' = options]_vars

\* a category press found no pending URL
C8_Witness ==
    /\ ev.kind = "callback"
    /\ Len(sent) = 1 /\ sent[1].msg = "session_expired"
    /\ answers = <<"URL not found. Please send it again.">>
    /\ calls = <<>>
    /\ tempLinks[ev.chat] = <<>>

-----------------------------------------------------------------------------
(* Claims about both bots *)

DispatchSteps == {"command", "search", "new_category", "url", "default",
                  "list", "edit_title"}

\* timestamps of a rate window that are less than windowMs old
Recent(window) ==
    Cardinality({i \in 1..Len(window) : now - window[i] < windowMs})

\* the rate window map of the route that serves the events
RateWindows == IF route = "telegram" THEN rateLimitMap ELSE todoRateLimitMap
RateWindowsAfter == IF route = "telegram" THEN rateLimitMap' ELSE todoRateLimitMap'

SessionAndStoreUnchanged ==
    UNCHANGED <<tempLinks, searchMode, deleteMode, newCategoryMode, editMode,
                pages, options, todos>>

\* C9: for every text message the authorization check runs first, then the
\* rate-limit check, and command parsing or mode dispatch happens only when
\* both pass (then the request is recorded first); a button press gets the
\* authorization check only and leaves the rate windows as they are.
C9_CheckOrdering ==
    [][/\ ev'.kind = "message" =>
            LET u == ev'.user
                authorized == u # NoUser /\ Authorized(u)
                limited == authorized /\ Recent(RateWindows[u]) >= maxRequests
            IN  /\ steps'[1] = "authorization"
                /\ ~authorized =>
                      /\ steps' = <<"authorization">>
                      /\ SessionAndStoreUnchanged
                      /\ UNCHANGED <<rateLimitMap, todoRateLimitMap>>
                      /\ calls' = <<>>
                /\ limited =>
                      /\ steps' = <<"authorization", "rate_limit">>
                      /\ SessionAndStoreUnchanged
                      /\ Len(RateWindowsAfter[u]) = Recent(RateWindows[u])
                      /\ calls' = <<>>
                /\ (authorized /\ ~limited) =>
                      /\ Len(steps') = 4
                      /\ SubSeq(steps', 1, 3) = <<"authorization", "rate_limit", "record">>
                      /\ steps'[4] \in DispatchSteps
                      /\ Len(RateWindowsAfter[u]) = Recent(RateWindows[u]) + 1
                      /\ RateWindowsAfter[u][Len(RateWindowsAfter[u])] = now
       /\ ev'.kind = "callback" =>
            /\ steps' = <<"authorization">>
            /\ UNCHANGED <<rateLimitMap, todoRateLimitMap>>]_vars

\* a rate-limited message stopped after the two checks, with a session to lose
C9_Witness ==
    /\ ev.kind = "message"
    /\ steps = <<"authorization", "rate_limit">>
    /\ Len(sent) = 1 /\ sent[1].msg = "rate_limited"
    /\ Len(RateWindows[ev.user]) = maxRequests
    /\ HasPendingUrl(ev.chat) \/ editMode[ev.chat] # <<>>

\* C10: an event of a user who is not in a non-empty allow-list leaves every
\* chat's pending URL, mode flags and edit target, every rate window and the
\* database unchanged, makes no document-store call, and the user is told.
C10_DenialChangesNothing ==
    [][( /\ ev'.kind \in {"message", "callback"}
         /\ Len(allowedUsers) > 0
         /\ ~InSeq(ev'.user, allowedUsers) )
       => /\ SessionAndStoreUnchanged
          /\ UNCHANGED <<rateLimitMap, todoRateLimitMap>>
          /\ calls' = <<>>
          /\ ev'.kind = "message" =>
                /\ sent' = <<[chat |-> ev'.chat, msg |-> "unauthorized",
                              buttons |-> NoButtons]>>
                /\ answers' = <<>>
          /\ ev'.kind = "callback" =>
                /\ answers' = <<"Unauthorized">>
                /\ sent' = <<>>]_vars

\* an unauthorized button press in a chat that holds session state
C10_Witness ==
    /\ ev.kind = "callback"
    /\ Len(allowedUsers) > 0 /\ ~InSeq(ev.user, allowedUsers)
    /\ answers = <<"Unauthorized">>
    /\ HasPendingUrl(ev.chat) \/ editMode[ev.chat] # <<>>

\* the message a handler sends without buttons
Plain(c, msg) == [chat |-> c, msg |-> msg, buttons |-> NoButtons]

\* C11: a rate-limited text message is terminal: the user is told, the user's
\* rate window gets no new timestamp (it only loses the expired ones), no
\* other rate window, no pending URL, mode flag, edit target or database
\* changes, and no command, mode handler or document-store call runs.
C11_RateLimitedIsTerminal ==
    [][( /\ ev'.kind = "message"
         /\ ev'.user # NoUser
         /\ Authorized(ev'.user)
         /\ Recent(RateWindows[ev'.user]) >= maxRequests )
       => /\ sent' = <<Plain(ev'.chat, "rate_limited")>>
          /\ answers' = <<>>
          /\ calls' = <<>>
          /\ \A i \in 1..Len(steps') : steps'[i] \notin DispatchSteps \cup {"record"}
          /\ RateWindowsAfter[ev'.user] = validRequests(RateWindows[ev'.user], now)
          /\ \A u \in Users \ {ev'.user} :
                /\ rateLimitMap'[u] = rateLimitMap[u]
                /\ todoRateLimitMap'[u] = todoRateLimitMap[u]
          /\ SessionAndStoreUnchanged]_vars

\* a rate-limited message in a chat that is in a mode
C11_Witness ==
    /\ ev.kind = "message"
    /\ sent = <<Plain(ev.chat, "rate_limited")>>
    /\ Recent(RateWindows[ev.user]) = maxRequests
    /\ Mode(ev.chat) # "Normal"

-----------------------------------------------------------------------------
(* Claims about failures *)

\* the session of chat c: pending URL, mode flags, edit target
Session(c) == <<tempLinks[c], searchMode[c], newCategoryMode[c], editMode[c]>>
SessionAfter(c) == <<tempLinks'[c], searchMode'[c], newCategoryMode'[c], editMode'[c]>>
NormalNothingPending == <<<<>>, FALSE, FALSE, <<>>>>

\* the document-store calls of an event that failed
Failed(callLog) == {i \in 1..Len(callLog) : ~callLog[i].ok}

PriorityPresses == {d \in TodoDatas : startsWith(d, <<"priority", ":">>)}

\* the step is a category selection, a new-category text, a title edit or a
\* priority selection
SessionFlowStep ==
    \/ /\ ev'.kind = "message"
       /\ Len(steps') = 4
       /\ steps'[4] \in {"new_category", "edit_title"}
    \/ /\ ev'.kind = "callback"
       /\ \E o \in Outcomes :
             \/ \E d \in CategoryPresses : LinkCallback(ev'.chat, ev'.user, d, o)
             \/ \E d \in PriorityPresses : TodoCallback(ev'.chat, ev'.user, d, o)

\* C12: when a document-store call fails during category selection,
\* new-category text, title edit or priority selection, the chat's session
\* after the event is what it was before the event, or Normal with nothing
\* pending.
C12_NoPartialUpdate ==
    [][( /\ Failed(calls') # {}
         /\ SessionFlowStep )
       => \/ SessionAfter(ev'.chat) = Session(ev'.chat)
          \/ SessionAfter(ev'.chat) = NormalNothingPending]_vars

\* the replies that report an error of the document store
ErrorMessages ==
    {"error_saving", "error_adding_category", "error_deleting", "error_creating",
     "error_updating", "error_marking_done", "error_updating_priority"}

\* C13: every event during which a document-store call failed sends the user
\* an error message.
C13_FailuresSurfaced ==
    [][Failed(calls') # {}
       => \E i \in 1..Len(sent') : sent'[i].msg \in ErrorMessages]_vars

-----------------------------------------------------------------------------
(* Claims about responses and payloads *)

\* C14: every inbound text message leads to at least one sendMessage call to
\* its chat and every button press to at least one answerCallbackQuery call,
\* on every path.
C14_EveryInvocationResponds ==
    [][/\ ev'.kind = "message" =>
             /\ Len(sent') >= 1
             /\ \A i \in 1..Len(sent') : sent'[i].chat = ev'.chat
       /\ ev'.kind = "callback" => Len(answers') >= 1]_vars

\* a button press with an unknown payload was acknowledged
C14_Witness ==
    /\ ev.kind = "callback"
    /\ Authorized(ev.user)
    /\ answers = <<"">>
    /\ sent = <<>>
    /\ calls = <<>>

\* the well-formed priority payloads
PrioritySelections == {d \in PriorityPresses : Len(split(d)) = 3}

\* the step handles an event that needs a pending URL or an edit target the
\* chat does not hold
NeedsWhatIsAbsent ==
    \/ /\ ev'.kind = "callback"
       /\ Authorized(ev'.user)
       /\ ~HasPendingUrl(ev'.chat)
       /\ \E d \in CategoryPresses, o \in Outcomes :
             LinkCallback(ev'.chat, ev'.user, d, o)
    \/ /\ ev'.kind = "message"
       /\ Len(steps') = 4 /\ steps'[4] = "new_category"
       /\ ~HasPendingUrl(ev'.chat)
       /\ \E t \in NameTexts, o \in Outcomes :
             LinkMessage(ev'.chat, ev'.user, t, o)
    \/ /\ ev'.kind = "callback"
       /\ Authorized(ev'.user)
       /\ editMode[ev'.chat] = <<>>
       /\ \E d \in PrioritySelections, o \in Outcomes :
             TodoCallback(ev'.chat, ev'.user, d, o)

\* C15: whenever an event needs a pending URL or an edit target that is
\* absent, the user gets the explicit restart message and the chat ends in
\* Normal mode with no mode flag set.
C15_SessionExpiry ==
    [][NeedsWhatIsAbsent
       => /\ \E i \in 1..Len(sent') : sent'[i].msg = "session_expired"
          /\ ModeAfter(ev'.chat) = "Normal"]_vars

-----------------------------------------------------------------------------
(* Direct use of addCategory of lib/notion.ts *)

CategoryNames ==
    { <<"Recipes">>, <<"recipes">>, <<"RECIPES">>, <<"Travel">>, <<"travel">>,
      <<"work">> }

CategoryOutcomes == {"ok", "retrieve_fails", "update_fails"}

AddEvent(name, o, r) ==
    [kind |-> "addCategory", chat |-> 0, user |-> 0, ret |-> r, rem |-> 0,
     name |-> name, outcome |-> o]

CallAddCategory(name, o) ==
    /\ route = "notion"
    /\ \E R \in {addCategory(Before, name, o)} :
          /\ ev' = AddEvent(name, o, R.r)
          /\ After(R.s)

InitCategory ==
    /\ InitCommon
    /\ route = "notion"
    /\ allowedUsers = <<>>

NextCategory == \E name \in CategoryNames, o \in CategoryOutcomes : CallAddCategory(name, o)

SpecCategory == InitCategory /\ [][NextCategory]_vars

\* the entries of the enumeration that equal name ignoring case
Matching(opts, name) ==
    {i \in 1..Len(opts) : toLowerCase(opts[i]) = toLowerCase(name)}

\* C16: an addCategory call that follows a successful addCategory call with a
\* name equal ignoring case, the store answering both of its calls, reports
\* success and leaves the enumeration as the first call left it, with
\* exactly one entry matching the name; an entry is inserted with the casing
\* of the call that found none.
C16_AddCategoryIdempotent ==
    [][ev'.kind = "addCategory" =>
          /\ ( /\ ev.kind = "addCategory"
               /\ ev.ret
               /\ toLowerCase(ev.name) = toLowerCase(ev'.name)
               /\ ev'.outcome = "ok" )
             => /\ ev'.ret
                /\ options' = options
                /\ Cardinality(Matching(options', ev'.name)) = 1
          /\ ( ev'.ret /\ Matching(options, ev'.name) = {} )
             => options' = Append(options, ev'.name)
          /\ ev'.ret => Cardinality(Matching(options', ev'.name)) = 1]_vars

\* the second call found the entry of the first under another casing
C16_Witness ==
    /\ ev.kind = "addCategory"
    /\ ev.ret
    /\ Len(calls) = 1
    /\ Len(options) = Len(CATEGORIES) + 1
    /\ options[Len(options)] # ev.name
    /\ Matching(options, ev.name) = {Len(options)}

-----------------------------------------------------------------------------
(* The buttons the bots send, pressed: every payload comes from a builder *)

RecordIds == {"t1", "t2"}
LinkIds == {"p1", "p2"}
ButtonUrls == { <<"HTTPS://b.example">> }
Priorities == << <<"High">>, <<"Medium">>, <<"Low">> >>

\* callback_data of the "Yes, save anyway" button of handleUrlMessage
forceSavePayload(url) == <<"force_save", ":">> \o url

Range(seq) == {seq[i] : i \in 1..Len(seq)}

TodoButtonDatas ==
    UNION {Range(createTaskActionButtons(id))
           \cup Range(createEditOptionButtons(<<id>>))
           \cup Range(createPriorityButtons(<<id>>)) : id \in RecordIds}

LinkButtonDatas ==
    Range(createCategoryButtons)
    \cup UNION {Range(createDeleteButton(id)) : id \in LinkIds}
    \cup {forceSavePayload(url) : url \in ButtonUrls}
    \cup {<<"cancel">>}

\* the databases hold nothing or one record when the first button is pressed
InitButtons ==
    /\ route \in {"telegram", "todo"}
    /\ allowedUsers = <<1>>
    /\ now = 0
    /\ tempLinks = [c \in Chats |-> <<>>]
    /\ searchMode = [c \in Chats |-> FALSE]
    /\ deleteMode = [c \in Chats |-> FALSE]
    /\ newCategoryMode = [c \in Chats |-> FALSE]
    /\ editMode = [c \in Chats |-> <<>>]
    /\ rateLimitMap = [u \in Users |-> <<>>]
    /\ todoRateLimitMap = [u \in Users |-> <<>>]
    /\ pages \in {<<>>, <<[url |-> <<"https://a.example">>, category |-> <<"Work">>,
                          nr |-> 1, archived |-> FALSE]>>}
    /\ options = CATEGORIES
    /\ todos \in {<<>>, <<[title |-> <<"Buy", " ", "milk">>, status |-> "Pending",
                          priority |-> <<"Medium">>, archived |-> FALSE]>>}
    /\ ev = NoEvent
    /\ sent = <<>>
    /\ answers = <<>>
    /\ calls = <<>>
    /\ steps = <<>>
    /\ recorded = [u \in Users |-> <<>>]
    /\ inflight = NoneInFlight

NextButtons ==
    \/ /\ route = "telegram"
       /\ \E c \in EventChats, u \in Admissible, data \in LinkButtonDatas :
             \E o \in DataOutcomes(data) : LinkCallback(c, u, data, o)
    \/ /\ route = "todo"
       /\ \E c \in EventChats, u \in Admissible, data \in TodoButtonDatas :
             \E o \in TodoDataOutcomes(data) : TodoCallback(c, u, data, o)

SpecButtons == InitButtons /\ [][NextButtons]_vars

\* the event made exactly one document-store call, op with args
CalledOnce(op, args) ==
    /\ Len(calls') = 1
    /\ calls'[1].op = op
    /\ calls'[1].args = args

\* the event made a pages.create call for url and category
CalledCreate(url, category) ==
    \E i \in 1..Len(calls') :
        calls'[i].op = "pages.create" /\ calls'[i].args = <<url, category>>

EditTarget(id, field) == <<[pageId |-> <<id>>, field |-> field]>>

\* C17: the payload of every button a builder produces is dispatched to the
\* matching action with the same id, category name, url and priority, whatever
\* the document store then answers.
C17_PayloadsRoundTrip ==
    [][ev'.kind = "callback" =>
         LET c == ev'.chat
             u == ev'.user
         IN  /\ route = "todo" =>
                \A id \in RecordIds, o \in {"ok", "update_fails"} :
                   /\ TodoCallback(c, u, createTaskActionButtons(id)[1], o)
                         => CalledOnce("pages.update", <<<<id>>, <<"Status">>, <<"Done">>>>)
                   /\ TodoCallback(c, u, createTaskActionButtons(id)[2], o)
                         => editMode'[c] = EditTarget(id, "choice") /\ calls' = <<>>
                   /\ TodoCallback(c, u, createTaskActionButtons(id)[3], o)
                         => CalledOnce("pages.update", <<<<id>>, <<"archived">>>>)
                   /\ TodoCallback(c, u, createEditOptionButtons(<<id>>)[1], o)
                         => editMode'[c] = EditTarget(id, "title") /\ calls' = <<>>
                   /\ TodoCallback(c, u, createEditOptionButtons(<<id>>)[2], o)
                         => editMode'[c] = EditTarget(id, "priority") /\ calls' = <<>>
                   /\ \A k \in 1..Len(Priorities) :
                         TodoCallback(c, u, createPriorityButtons(<<id>>)[k], o)
                         => CalledOnce("pages.update",
                                       <<<<id>>, <<"Priority">>, Priorities[k]>>)
             /\ route = "telegram" =>
                /\ \A id \in LinkIds, o \in {"ok", "update_fails"} :
                      LinkCallback(c, u, createDeleteButton(id)[1], o)
                      => CalledOnce("pages.update", <<<<id>>>>)
                /\ \A url \in ButtonUrls :
                      LinkCallback(c, u, forceSavePayload(url), "ok")
                      => tempLinks'[c] = <<url>> /\ calls' = <<>>
                /\ \A k \in 1..Len(CATEGORIES) :
                      \A o \in DataOutcomes(createCategoryButtons[k]) :
                         ( HasPendingUrl(c)
                           /\ LinkCallback(c, u, createCategoryButtons[k], o) )
                         => CalledCreate(tempLinks[c][1], CATEGORIES[k])]_vars

\* a Low priority button of task t2 reached updateTodoPriority
C17_Witness ==
    /\ ev.kind = "callback"
    /\ Len(calls) = 1
    /\ calls[1].args = <<<<"t2">>, <<"Priority">>, <<"Low">>>>
    /\ answers # <<>>

-----------------------------------------------------------------------------
(* Claims about single button presses *)

\* the event was answered with an acknowledgment without text, and nothing else
\* was sent, called or changed
PlainAcknowledgmentOnly ==
    /\ answers' = <<"">>
    /\ sent' = <<>>
    /\ calls' = <<>>
    /\ SessionAndStoreUnchanged
    /\ UNCHANGED <<rateLimitMap, todoRateLimitMap>>

\* C18: a malformed payload pressed by an authorized user (no delimiter, an
\* unknown prefix, a priority payload that does not split into exactly three
\* parts) is answered with a plain acknowledgment and nothing else: no session
\* state changes and no document-store call is made.
C18_MalformedAcknowledged ==
    [][(ev'.kind = "callback" /\ Authorized(ev'.user)) =>
         /\ \A d \in MalformedLinkDatas :
               LinkCallback(ev'.chat, ev'.user, d, "ok") => PlainAcknowledgmentOnly
         /\ \A d \in MalformedTodoDatas :
               TodoCallback(ev'.chat, ev'.user, d, "ok") => PlainAcknowledgmentOnly]_vars

\* a payload was acknowledged plainly in the task bot while a task is edited
C18_Witness ==
    /\ route = "todo"
    /\ ev.kind = "callback"
    /\ Authorized(ev.user)
    /\ answers = <<"">>
    /\ sent = <<>>
    /\ calls = <<>>
    /\ editMode[ev.chat] # <<>>

LinkDeletePresses == {d \in LinkDatas : startsWith(d, <<"delete", ":">>)}
TodoDeletePresses == {d \in TodoDatas : startsWith(d, <<"delete", ":">>)}

\* the event called archive once with args, answered the callback once and
\* sent the confirmation or the error message that fits the call's result
ArchivedAndAnswered(args, confirmation, failure) ==
    /\ CalledOnce("pages.update", args)
    /\ answers' = <<IF calls'[1].ok THEN confirmation ELSE failure>>
    /\ sent' = <<Plain(ev'.chat, IF calls'[1].ok THEN "deleted" ELSE "error_deleting")>>

\* C19: a press of delete:<id> by an authorized user, in any session state,
\* calls archive exactly once with <id>, answers the callback on success and
\* on failure, and leaves every chat's pending URL, mode flags and edit target
\* unchanged, also when <id> is the record being edited.
C19_DeleteLeavesSession ==
    [][(ev'.kind = "callback" /\ Authorized(ev'.user)) =>
         \A o \in {"ok", "update_fails"} :
            /\ \A d \in LinkDeletePresses :
                  LinkCallback(ev'.chat, ev'.user, d, o)
                  => /\ ArchivedAndAnswered(<<replace(d, <<"delete", ":">>)>>,
                                            "Deleted successfully!", "Error deleting")
                     /\ UNCHANGED <<tempLinks, searchMode, deleteMode,
                                    newCategoryMode, editMode>>
            /\ \A d \in TodoDeletePresses :
                  TodoCallback(ev'.chat, ev'.user, d, o)
                  => /\ ArchivedAndAnswered(<<replace(d, <<"delete", ":">>),
                                              <<"archived">>>>,
                                            "Deleted!", "Error")
                     /\ UNCHANGED <<tempLinks, searchMode, deleteMode,
                                    newCategoryMode, editMode>>]_vars

\* the task being edited was archived and is still the chat's edit target
C19_Witness ==
    /\ route = "todo"
    /\ ev.kind = "callback"
    /\ Len(calls) = 1
    /\ calls[1].args = <<<<"t1">>, <<"archived">>>>
    /\ calls[1].ok
    /\ answers = <<"Deleted!">>
    /\ editMode[ev.chat] # <<>>
    /\ editMode[ev.chat][1].pageId = <<"t1">>

ForceSavePresses == {d \in LinkDatas : startsWith(d, <<"force_save", ":">>)}

\* a record with this url is in the database
Recorded(url) == \E i \in 1..Len(pages) : pages[i].url = url /\ ~pages[i].archived

\* C20: a press of force_save:<url> by an authorized user, in any state, makes
\* <url> the chat's pending URL without a document-store query and leaves the
\* chat in Normal mode; a following category press, when the store accepts
\* the record, persists a record for the pending URL although a record with
\* that URL exists.
C20_ForceSaveBypassesCheck ==
    [][(ev'.kind = "callback" /\ Authorized(ev'.user)) =>
         /\ \A d \in ForceSavePresses :
               LinkCallback(ev'.chat, ev'.user, d, "ok")
               => /\ tempLinks'[ev'.chat] = <<replace(d, <<"force_save", ":">>)>>
                  /\ calls' = <<>>
                  /\ ModeAfter(ev'.chat) = "Normal"
         /\ ( HasPendingUrl(ev'.chat) /\ Recorded(tempLinks[ev'.chat][1]) )
            => \A d \in CategoryPresses :
                  LinkCallback(ev'.chat, ev'.user, d, "ok")
                  => ( Len(pages) < MaxPages
                       => PersistedOne(tempLinks[ev'.chat][1], SubSeq(d, 3, Len(d))) )]_vars

-----------------------------------------------------------------------------
(* Claims about texts handled by mode *)

UrlTexts == {t \in LinkTexts : extractUrl(trim(t)) # <<>>}

\* C21: a text with a URL handled in Normal mode makes the extracted URL the
\* chat's pending URL, whether the duplicate check reports a duplicate or not,
\* and persists no record.
C21_UrlBecomesPending ==
    [][( /\ ev'.kind = "message"
         /\ Mode(ev'.chat) = "Normal"
         /\ Admitted(ev'.user) )
       => \A t \in UrlTexts, o \in QueryOutcomes :
             LinkMessage(ev'.chat, ev'.user, t, o)
             => /\ tempLinks'[ev'.chat] = <<extractUrl(trim(t))>>
                /\ pages' = pages
                /\ Created(calls') = {}]_vars

CreateNewPayload == <<"category", ":", "__other__">>

\* C22: every category keyboard the link bot sends offers the create-new
\* option (payload category:__other__), and a press of it by an authorized
\* user with a pending URL enters AwaitingCategoryText and sends the prompt.
C22_CreateNewOffered ==
    [][ /\ \A i \in 1..Len(sent') :
              sent'[i].msg = "choose_category"
              => InSeq(CreateNewPayload, sent'[i].buttons)
        /\ ( /\ ev'.kind = "callback"
             /\ Authorized(ev'.user)
             /\ HasPendingUrl(ev'.chat)
             /\ LinkCallback(ev'.chat, ev'.user, CreateNewPayload, "ok") )
           => /\ ModeAfter(ev'.chat) = "AwaitingCategoryText"
              /\ sent' = <<Plain(ev'.chat, "enter_category")>> ]_vars

NonCommandTexts == {t \in LinkTexts : ~startsWithSlash(trim(t))}

\* C23: in AwaitingSearchKeyword mode every text that is not a command, a URL
\* included, is the keyword of exactly one store query, is not captured as
\* pending URL, and leaves the chat in Normal mode whether the query returned
\* results, returned none or failed.
C23_SearchTextIsKeyword ==
    [][( /\ ev'.kind = "message"
         /\ Mode(ev'.chat) = "AwaitingSearchKeyword"
         /\ Admitted(ev'.user) )
       => \A t \in NonCommandTexts, o \in QueryOutcomes :
             LinkMessage(ev'.chat, ev'.user, t, o)
             => /\ CalledOnce("databases.query", <<<<"Title", "URL">>, trim(t)>>)
                /\ tempLinks' = tempLinks
                /\ ModeAfter(ev'.chat) = "Normal"]_vars

\* the user passes the authorization and the rate-limit check of the route
PassesChecks(u) ==
    /\ u # NoUser
    /\ Authorized(u)
    /\ Recent(RateWindows[u]) < maxRequests

\* texts the category-name validation rejects
InvalidNames == {t \in NonCommandTexts : length(trim(t)) \notin 1..50}

\* texts of the task bot that are no command and not the list shortcut
TaskTexts ==
    {t \in TodoTexts : ~startsWithSlash(trim(t)) /\ toLowerCase(trim(t)) # <<"l">>}

\* texts the task and title validation rejects
InvalidTaskTexts == {t \in TaskTexts : length(trim(t)) \notin 1..500}

\* the chat's edit target is a title edit
EditingTitle(c) == editMode[c] # <<>> /\ editMode[c][1].field = "title"

\* the event sent this one message, made no document-store call and left the
\* session maps and the databases as they were
RepromptOnly(msg) ==
    /\ sent' = <<Plain(ev'.chat, msg)>>
    /\ answers' = <<>>
    /\ calls' = <<>>
    /\ SessionAndStoreUnchanged

\* C24: a text that fails validation (a category name that is empty or longer
\* than 50 characters after trim in AwaitingCategoryText mode; a task text or
\* new title that is empty or longer than 500 characters) re-prompts the
\* user, makes no document-store call and leaves mode, pending URL and edit
\* target as they were.
C24_ValidationFailureReprompts ==
    [][(ev'.kind = "message" /\ PassesChecks(ev'.user)) =>
         LET c == ev'.chat
             u == ev'.user
         IN  /\ Mode(c) = "AwaitingCategoryText" =>
                \A t \in InvalidNames :
                   LinkMessage(c, u, t, "ok")
                   => RepromptOnly(IF length(trim(t)) = 0 THEN "name_empty"
                                   ELSE "name_too_long")
             /\ \A t \in InvalidTaskTexts :
                   TodoMessage(c, u, t, "ok")
                   => RepromptOnly(
                         IF EditingTitle(c)
                         THEN IF length(trim(t)) = 0 THEN "title_empty"
                              ELSE "title_too_long"
                         ELSE IF length(trim(t)) = 0 THEN "task_empty"
                              ELSE "task_too_long")]_vars

\* a title of more than 500 characters was turned down during a title edit
C24_Witness ==
    /\ route = "todo"
    /\ ev.kind = "message"
    /\ sent = <<Plain(ev.chat, "title_too_long")>>
    /\ calls = <<>>
    /\ EditingTitle(ev.chat)

-----------------------------------------------------------------------------
(* Claims about the task bot *)

ValidTaskTexts == {t \in TaskTexts : length(trim(t)) \in 1..500}

NewTask(title) ==
    [title |-> title, status |-> "Pending", priority |-> <<"Medium">>,
     archived |-> FALSE]

\* C25: in the task bot a text of 1 to 500 characters that is no command and
\* not the list shortcut, received while no title edit is active, makes
\* exactly one create call for a task with the text as title and priority
\* Medium; the call the store accepts adds exactly that one record with
\* status Pending, a refused one adds none, and the edit target is unchanged.
C25_FreeTextCreatesTask ==
    [][( /\ ev'.kind = "message"
         /\ PassesChecks(ev'.user)
         /\ ~EditingTitle(ev'.chat) )
       => \A t \in ValidTaskTexts, o \in {"ok", "create_fails"} :
             TodoMessage(ev'.chat, ev'.user, t, o)
             => /\ CalledOnce("pages.create", <<trim(t), <<"Medium">>>>)
                /\ todos' = IF calls'[1].ok THEN Append(todos, NewTask(trim(t)))
                            ELSE todos
                /\ editMode' = editMode]_vars

\* a task was created while the chat's edit target asks for a priority or a
\* choice
C25_Witness ==
    /\ route = "todo"
    /\ ev.kind = "message"
    /\ Len(sent) = 1 /\ sent[1].msg = "task_created"
    /\ editMode[ev.chat] # <<>>
    /\ editMode[ev.chat][1].field \in {"priority", "choice"}
    /\ todos # <<>>
    /\ todos[Len(todos)] = NewTask(<<"Buy", " ", "milk">>)

\* C26: in the task bot, while the edit target's field is title, a text of 1
\* to 500 characters that is no command and not the list shortcut makes
\* exactly one title update of the edit target's record and creates no task;
\* when the update succeeds the edit target is cleared, when it fails the
\* edit target is unchanged.
C26_TitleEditUpdatesTarget ==
    [][( /\ ev'.kind = "message"
         /\ PassesChecks(ev'.user)
         /\ EditingTitle(ev'.chat) )
       => \A t \in ValidTaskTexts, o \in {"ok", "update_fails"} :
             TodoMessage(ev'.chat, ev'.user, t, o)
             => /\ CalledOnce("pages.update",
                              <<editMode[ev'.chat][1].pageId, <<"Title">>, trim(t)>>)
                /\ Len(todos') = Len(todos)
                /\ editMode' = IF calls'[1].ok
                               THEN [editMode EXCEPT ![ev'.chat] = <<>>]
                               ELSE editMode]_vars

\* the title of the task being edited was updated and the edit is over
C26_Witness ==
    /\ route = "todo"
    /\ ev.kind = "message"
    /\ Len(sent) = 1 /\ sent[1].msg = "task_updated"
    /\ Len(calls) = 1 /\ calls[1].op = "pages.update" /\ calls[1].ok
    /\ calls[1].args = <<<<"t1">>, <<"Title">>, <<"Buy", " ", "milk">>>>
    /\ editMode[ev.chat] = <<>>

CancelTexts == {t \in TodoTexts : firstWord(trim(t)) = <<"/cancel">>}

\* the step is a /cancel text or a valid new title whose update succeeds, in
\* a chat of the task bot that is in Editing
CancelOrTitleUpdated ==
    /\ ev'.kind = "message"
    /\ PassesChecks(ev'.user)
    /\ Mode(ev'.chat) = "Editing"
    /\ \/ \E t \in CancelTexts : TodoMessage(ev'.chat, ev'.user, t, "ok")
       \/ /\ EditingTitle(ev'.chat)
          /\ \E t \in ValidTaskTexts : TodoMessage(ev'.chat, ev'.user, t, "ok")
          /\ Len(calls') = 1 /\ calls'[1].ok

\* the step is a priority selection in a chat of the task bot that is in
\* Editing
PrioritySelected ==
    /\ ev'.kind = "callback"
    /\ Authorized(ev'.user)
    /\ Mode(ev'.chat) = "Editing"
    /\ \E d \in PrioritySelections, o \in {"ok", "update_fails"} :
          TodoCallback(ev'.chat, ev'.user, d, o)

\* C27, as stated: in the task bot a chat in Editing is in Normal, without
\* edit target, after a /cancel text, after a successful title update and
\* after a priority selection.
C27_AsStated ==
    [][(CancelOrTitleUpdated \/ PrioritySelected)
       => /\ ModeAfter(ev'.chat) = "Normal"
          /\ editMode'[ev'.chat] = <<>>]_vars

\* C27, as the code behaves: in the task bot a chat in Editing is in Normal,
\* without edit target, after a /cancel text, after a successful title update
\* and after a priority selection whose update succeeds; a priority selection
\* whose update fails leaves the edit target as it was.
C27_EditingExits ==
    [][ /\ CancelOrTitleUpdated
           => /\ ModeAfter(ev'.chat) = "Normal"
              /\ editMode'[ev'.chat] = <<>>
        /\ PrioritySelected
           => /\ Len(calls') = 1
              /\ editMode'[ev'.chat] = IF calls'[1].ok THEN <<>>
                                       ELSE editMode[ev'.chat] ]_vars

\* a priority selection failed and the chat is still in Editing
C27_Witness ==
    /\ route = "todo"
    /\ ev.kind = "callback"
    /\ answers = <<"Error">>
    /\ Len(calls) = 1 /\ ~calls[1].ok
    /\ calls[1].args = <<<<"t1">>, <<"Priority">>, <<"High">>>>
    /\ editMode[ev.chat] # <<>>

-----------------------------------------------------------------------------
(* Claims about the rate window *)

\* every timestamp of the window lies within windowMs of now
WithinWindow(window) ==
    \A i \in 1..Len(window) : window[i] <= now /\ now - window[i] < windowMs

\* C28, as stated: after the pruning of an isRateLimited call every retained
\* timestamp lies within windowMs of now, and a user whose pruned window
\* holds at most maxRequests timestamps is admitted.
C28_AsStated ==
    [][ev'.kind = "isRateLimited" =>
          /\ WithinWindow(rateLimitMap'[ev'.user])
          /\ Len(rateLimitMap'[ev'.user]) <= maxRequests => ~ev'.ret]_vars

\* C28, as the code behaves: after the pruning of an isRateLimited call every
\* retained timestamp lies within windowMs of now, and the user is admitted
\* exactly when the pruned window holds fewer than maxRequests timestamps.
C28_AdmissionBelowLimit ==
    [][ev'.kind = "isRateLimited" =>
          /\ WithinWindow(rateLimitMap'[ev'.user])
          /\ ~ev'.ret <=> Len(rateLimitMap'[ev'.user]) < maxRequests]_vars

\* a user whose pruned window holds exactly maxRequests timestamps, one of
\* them not from this instant, was turned away
C28_Witness ==
    /\ ev.kind = "isRateLimited"
    /\ ev.ret
    /\ Len(rateLimitMap[ev.user]) = maxRequests
    /\ \E i \in 1..Len(rateLimitMap[ev.user]) : rateLimitMap[ev.user][i] < now

-----------------------------------------------------------------------------
(* A chat shared by two users of the link bot.  In this specification calls  *)
(* is the request log of the document store since start-up, not only the    *)
(* requests of the last event.                                              *)

MaxLog == 4            \* requests in the log after which no event is handled

SharedChat == 1
SharedUrls == { <<"https://a.example">>, <<"HTTPS://b.example">> }
SharedDatas == { <<"category", ":", "Work">> }

InitShared ==
    /\ InitCommon
    /\ route = "telegram"
    /\ allowedUsers = <<1, 2>>

\* the state a handler starts from when the request log is kept
BeforeLogged == [Before EXCEPT !.calls = calls]

\* POST /api/telegram with update.message, a URL sent to the shared chat
SharedMessage(userId, text, o) ==
    /\ route = "telegram"
    /\ Len(calls) < MaxLog
    /\ ev' = InboundEvent("message", SharedChat, userId)
    /\ \E S \in {handleMessage(BeforeLogged, SharedChat, userId, text, now, o)} :
          After(S)

\* POST /api/telegram with update.callback_query, pressed in the shared chat
SharedCallback(userId, data, o) ==
    /\ route = "telegram"
    /\ Len(calls) < MaxLog
    /\ ev' = InboundEvent("callback", SharedChat, userId)
    /\ \E S \in {handleCallbackQuery(BeforeLogged, SharedChat, userId, data, o)} :
          After(S)

NextShared ==
    \/ \E u \in Users, text \in SharedUrls, o \in QueryOutcomes :
          SharedMessage(u, text, o)
    \/ \E u \in Users, data \in SharedDatas :
          \E o \in DataOutcomes(data) : SharedCallback(u, data, o)

SpecShared == InitShared /\ [][NextShared]_vars

\* the request is a duplicate check
IsUrlQuery(call) ==
    /\ call.op = "databases.query"
    /\ Len(call.args) = 2
    /\ call.args[1] = <<"URL">>

FirstUrl == calls[Len(calls) - 1].args[2]
SecondUrl == calls[Len(calls)].args[2]

\* the last two events that reached the store were messages with two
\* different URLs, neither of them in the database
TwoUrlsHandled ==
    /\ Len(calls) >= 2
    /\ IsUrlQuery(calls[Len(calls) - 1])
    /\ IsUrlQuery(calls[Len(calls)])
    /\ FirstUrl # SecondUrl
    /\ ~Recorded(FirstUrl)
    /\ ~Recorded(SecondUrl)

\* the requests the step added to the log
NewCalls == SubSeq(calls', Len(calls) + 1, Len(calls'))

\* C29: after two non-duplicate URL messages for one chat, handled one after
\* the other and sent by the same or by different users, the chat's pending
\* URL is the second URL, and a following category press asks the store for
\* one record, with the second URL, which is the only record persisted.
C29_LastWriterWins ==
    [][ /\ TwoUrlsHandled' => tempLinks'[SharedChat] = <<SecondUrl'>>
        /\ ( /\ TwoUrlsHandled
             /\ ev'.kind = "callback"
             /\ \E u \in Users, d \in SharedDatas :
                   \E o \in DataOutcomes(d) : SharedCallback(u, d, o) )
           => LET creates == {i \in 1..Len(NewCalls) :
                                NewCalls[i].op = "pages.create"}
              IN  /\ Cardinality(creates) = 1
                  /\ \A i \in creates :
                        /\ NewCalls[i].args[1] = SecondUrl
                        /\ IF NewCalls[i].ok
                           THEN /\ Len(pages') = Len(pages) + 1
                                /\ SubSeq(pages', 1, Len(pages)) = pages
                                /\ pages'[Len(pages')].url = SecondUrl
                           ELSE pages' = pages ]_vars

\* user 1 sent one URL, user 2 another, and the press saved the second one
C29_Witness ==
    /\ ev.kind = "callback"
    /\ Len(calls) = 4
    /\ IsUrlQuery(calls[1]) /\ calls[1].args[2] = <<"https://a.example">>
    /\ IsUrlQuery(calls[2]) /\ calls[2].args[2] = <<"HTTPS://b.example">>
    /\ calls[4].op = "pages.create" /\ calls[4].ok
    /\ Len(rateLimitMap[1]) = 1 /\ Len(rateLimitMap[2]) = 1
    /\ Len(pages) = 1 /\ pages[1].url = <<"HTTPS://b.example">>
    /\ tempLinks[SharedChat] = <<>>

-----------------------------------------------------------------------------
(* handleMessage invocations in flight in one process.  A handler runs      *)
(* until it reaches an await; only then another invocation gets the thread. *)

FlightUser == 1
Invocations == 1..(Headroom + 1)

\* variant of suspendsAt: the handler also awaits between the rate-limit
\* check and the recording of the request
suspendsAtCheckToo(position) == position \in {"checked", "replying", "dispatching"}

\* the positions of handleMessage at which it awaits: the reply to a user it
\* turns away and the dispatch of an admitted message
suspendsAt(position) == position \in {"replying", "dispatching"}

SetRateWindows(map) ==
    IF route = "telegram"
    THEN rateLimitMap' = map /\ todoRateLimitMap' = todoRateLimitMap
    ELSE todoRateLimitMap' = map /\ rateLimitMap' = rateLimitMap

\* invocation p moves to position, and keeps the thread unless it awaits there
Moved(p, position) ==
    [pc |-> [inflight.pc EXCEPT ![p] = position],
     running |-> IF suspendsAt(position) THEN 0 ELSE p]

\* handleMessage from its first statement through the rate-limit check
FlightCheck(p) ==
    /\ inflight.running = 0
    /\ inflight.pc[p] = "idle"
    /\ LET limited == isRateLimited(RateWindows, FlightUser, now)
           admitted == isUserAuthorized(FlightUser) /\ ~limited
       IN  /\ SetRateWindows(IF isUserAuthorized(FlightUser)
                             THEN isRateLimitedMap(RateWindows, FlightUser, now)
                             ELSE RateWindows)
           /\ inflight' = Moved(p, IF admitted THEN "checked" ELSE "replying")
           /\ ev' = CallEvent("isRateLimited", FlightUser, limited, 0)
    /\ UNCHANGED <<route, now, allowedUsers, sessionVars, storeVars, outVars,
                   recorded>>

\* handleMessage: recordRequest(userId), then the dispatch up to its await
FlightRecord(p) ==
    /\ inflight.running \in {0, p}
    /\ inflight.pc[p] = "checked"
    /\ SetRateWindows(recordRequest(RateWindows, FlightUser, now))
    /\ inflight' = Moved(p, "dispatching")
    /\ ev' = CallEvent("recordRequest", FlightUser, FALSE, 0)
    /\ UNCHANGED <<route, now, allowedUsers, sessionVars, storeVars, outVars,
                   recorded>>

\* the awaited call settles and handleMessage returns
FlightReturn(p) ==
    /\ inflight.running \in {0, p}
    /\ inflight.pc[p] \in {"replying", "dispatching"}
    /\ inflight' = [pc |-> [inflight.pc EXCEPT ![p] = "done"], running |-> 0]
    /\ ev' = CallEvent("return", FlightUser, FALSE, 0)
    /\ UNCHANGED <<route, now, allowedUsers, sessionVars, rateLimitMap,
                   todoRateLimitMap, storeVars, outVars, recorded>>

InitFlight ==
    /\ route \in {"telegram", "todo"}
    /\ allowedUsers = <<FlightUser>>
    /\ now = 0
    /\ tempLinks = [c \in Chats |-> <<>>]
    /\ searchMode = [c \in Chats |-> FALSE]
    /\ deleteMode = [c \in Chats |-> FALSE]
    /\ newCategoryMode = [c \in Chats |-> FALSE]
    /\ editMode = [c \in Chats |-> <<>>]
    /\ rateLimitMap = [u \in Users |->
          IF route = "telegram" /\ u = FlightUser THEN Used ELSE <<>>]
    /\ todoRateLimitMap = [u \in Users |->
          IF route = "todo" /\ u = FlightUser THEN Used ELSE <<>>]
    /\ pages = <<>>
    /\ options = CATEGORIES
    /\ todos = <<>>
    /\ ev = NoEvent
    /\ sent = <<>>
    /\ answers = <<>>
    /\ calls = <<>>
    /\ steps = <<>>
    /\ recorded = [u \in Users |-> <<>>]
    /\ inflight = [pc |-> [p \in Invocations |-> "idle"], running |-> 0]

NextFlight ==
    \/ \E p \in Invocations : FlightCheck(p)
    \/ \E p \in Invocations : FlightRecord(p)
    \/ \E p \in Invocations : FlightReturn(p)
    \/ \E d \in TickSteps : Tick(d)

SpecFlight == InitFlight /\ [][NextFlight]_vars

\* C30: with several handleMessage invocations of one user in flight in one
\* process, the rate window of every user never holds more than maxRequests
\* timestamps that lie within the trailing windowMs, and an invocation that
\* passed the rate-limit check keeps the thread until it has recorded its
\* request.
C30_AdmissionBound ==
    /\ \A u \in Users : Recent(RateWindows[u]) <= maxRequests
    /\ \A p \in Invocations :
          inflight.pc[p] = "checked" => inflight.running = p

\* the window is full, one invocation was admitted and another turned away,
\* and neither has returned
C30_Witness ==
    /\ Recent(RateWindows[FlightUser]) = maxRequests
    /\ \E p, q \in Invocations :
          /\ inflight.pc[p] = "dispatching"
          /\ inflight.pc[q] = "replying"


-----------------------------------------------------------------------------
(* Two chats and two users served by one process *)

\* the texts and payloads sent from either chat
KeyTexts ==
    IF route = "telegram"
    THEN { <<"/search">>, <<"/cancel">>, <<"https://a.example">> }
    ELSE { <<"/cancel">>, <<"Buy", " ", "milk">> }

KeyDatas ==
    IF route = "telegram"
    THEN { <<"cancel">>, <<"category", ":", "__other__">>,
           <<"category", ":", "Work">> }
    ELSE { <<"cancel">>, <<"edit_title", ":", "t1">>,
           <<"priority", ":", "t1", ":", "High">> }

\* a store call of the event succeeds, or its one write fails
KeyOutcomes == {"ok", "create_fails", "update_fails"}

\* both users are on the allow-list and have used the window as in Init
InitKeys ==
    /\ route \in {"telegram", "todo"}
    /\ allowedUsers = <<1, 2>>
    /\ now = 0
    /\ tempLinks = [c \in Chats |-> <<>>]
    /\ searchMode = [c \in Chats |-> FALSE]
    /\ deleteMode = [c \in Chats |-> FALSE]
    /\ newCategoryMode = [c \in Chats |-> FALSE]
    /\ editMode = [c \in Chats |-> <<>>]
    /\ rateLimitMap = [u \in Users |-> IF route = "telegram" THEN Used ELSE <<>>]
    /\ todoRateLimitMap = [u \in Users |-> IF route = "todo" THEN Used ELSE <<>>]
    /\ pages = <<>>
    /\ options = CATEGORIES
    /\ todos = <<>>
    /\ ev = InboundEvent("message", 1, 1)
    /\ sent = <<[chat |-> 1, msg |-> "unknown_command", buttons |-> NoButtons]>>
    /\ answers = <<>>
    /\ calls = <<>>
    /\ steps = <<"authorization", "rate_limit", "record", "command">>
    /\ recorded = [u \in Users |-> <<>>]
    /\ inflight = NoneInFlight

NextKeys ==
    \/ /\ route = "telegram"
       /\ \E c \in Chats, u \in Users, text \in KeyTexts :
             \E o \in TextOutcomes(c, u, text) \cap KeyOutcomes :
                LinkMessage(c, u, text, o)
    \/ /\ route = "telegram"
       /\ \E c \in Chats, u \in Users, data \in KeyDatas :
             \E o \in DataOutcomes(data) \cap KeyOutcomes :
                LinkCallback(c, u, data, o)
    \/ /\ route = "todo"
       /\ \E c \in Chats, u \in Users, text \in KeyTexts :
             \E o \in TodoTextOutcomes(u, text) : TodoMessage(c, u, text, o)
    \/ /\ route = "todo"
       /\ \E c \in Chats, u \in Users, data \in KeyDatas :
             \E o \in TodoDataOutcomes(data) : TodoCallback(c, u, data, o)

SpecKeys == InitKeys /\ [][NextKeys]_vars

-----------------------------------------------------------------------------
(* Events of one chat handled by overlapping invocations.  An invocation    *)
(* runs from one await to the next; while it waits for the document store   *)
(* or for Telegram, another invocation runs.  inflight is, per invocation,  *)
(* its position and the locals it holds across its awaits.                  *)

Overlapping == 1..3

NotStarted ==
    [at |-> "idle", kind |-> "none", url |-> <<>>, category |-> <<>>, nr |-> 0,
     opts |-> <<>>, ok |-> FALSE]

\* the state invocation p leaves behind when it reaches its next await
Suspended(S, p, locals) ==
    /\ tempLinks' = S.tempLinks
    /\ rateLimitMap' = S.rateLimitMap
    /\ pages' = S.pages
    /\ options' = S.options
    /\ sent' = S.sent
    /\ answers' = S.answers
    /\ calls' = S.calls
    /\ inflight' = [inflight EXCEPT ![p] = locals]
    /\ UNCHANGED <<route, now, allowedUsers, searchMode, deleteMode,
                   newCategoryMode, editMode, todoRateLimitMap, todos, steps,
                   recorded>>

\* a text message with a URL: handleMessage up to the duplicate check of
\* handleUrlMessage, then handleUrlMessage from the answer of that check
UrlMessageStep(p, text, o) ==
    LET my == inflight[p]
    IN  \/ /\ my.at = "idle"
           /\ o = "ok"
           /\ isUserAuthorized(FlightUser)
           /\ ~isRateLimited(rateLimitMap, FlightUser, now)
           /\ ~startsWithSlash(trim(text))
           /\ ~searchMode[SharedChat] /\ ~newCategoryMode[SharedChat]
           /\ isUrl(trim(text))
           /\ ev' = InboundEvent("message", SharedChat, FlightUser)
           /\ Suspended([BeforeLogged EXCEPT !.rateLimitMap =
                            recordRequest(isRateLimitedMap(@, FlightUser, now),
                                          FlightUser, now)],
                        p, [my EXCEPT !.at = "checking", !.kind = "url",
                                      !.url = extractUrl(trim(text))])
        \/ /\ my.at = "checking"
           /\ o \in {"ok", "query_fails"}
           /\ ev' = InboundEvent("message", SharedChat, FlightUser)
           /\ Suspended(handleUrlMessage(BeforeLogged, SharedChat, my.url, o),
                        p, [my EXCEPT !.at = "done",
                               !.ok = ~checkDuplicateUrl(BeforeLogged, my.url, o).r])

\* a category press: handleCallbackQuery and handleCategorySelection up to
\* the call of saveToNotion, saveToNotion from await to await, then
\* handleCategorySelection from the result of the save
CategorySelectionStep(p, category, o) ==
    LET my == inflight[p]
        S0 == BeforeLogged
    IN  /\ ev' = InboundEvent("callback", SharedChat, FlightUser)
        /\ \/ /\ my.at = "idle"
              /\ o = "ok"
              /\ isUserAuthorized(FlightUser)
              /\ IF ~hasTempLink(S0, SharedChat) \/ ~validUrl(getTempLink(S0, SharedChat))
                 THEN Suspended(handleCategorySelection(S0, SharedChat, category, o),
                                p, [my EXCEPT !.at = "done", !.kind = "press"])
                 ELSE Suspended(S0, p,
                                [my EXCEPT !.at = "querying", !.kind = "press",
                                           !.url = getTempLink(S0, SharedChat),
                                           !.category = category])
           \/ /\ my.at = "querying"
              /\ o \in {"ok", "query_fails"}
              /\ Suspended(notionCall(S0, "databases.query", <<<<"Nr">>>>,
                                      o # "query_fails"),
                           p, [my EXCEPT !.at = "creating",
                                         !.nr = getMaxNr(S0, o) + 1])
           \/ /\ my.at = "creating"
              /\ o \in {"ok", "create_fails"}
              /\ LET S1 == notionCall(S0, "pages.create", <<my.url, my.category>>,
                                      o = "ok")
                 IN  IF o = "ok"
                     THEN Suspended(
                              sendMessage(
                                  answerCallbackQuery(
                                      [S1 EXCEPT !.pages = Append(@,
                                          [url |-> my.url, category |-> my.category,
                                           nr |-> my.nr, archived |-> FALSE])],
                                      "Saved successfully!"),
                                  SharedChat, "saved", NoButtons),
                              p, [my EXCEPT !.at = "replying", !.ok = TRUE])
                     ELSE Suspended(
                              sendMessage(answerCallbackQuery(S1, "Error saving"),
                                          SharedChat, "error_saving", NoButtons),
                              p, [my EXCEPT !.at = "done"])
           \/ /\ my.at = "replying"
              /\ o = "ok"
              /\ Suspended(removeTempLink(S0, SharedChat), p,
                           [my EXCEPT !.at = "done"])

\* addCategory(name): from the call to the answer of databases.retrieve,
\* then the write of the option list it has read plus the new name
AddCategoryStep(p, name, o) ==
    LET my == inflight[p]
        S0 == BeforeLogged
        exists == \E i \in 1..Len(options) :
                     toLowerCase(options[i]) = toLowerCase(name)
    IN  /\ ev' = CallEvent("addCategory", FlightUser, FALSE, 0)
        /\ \/ /\ my.at = "idle"
              /\ o \in {"ok", "retrieve_fails"}
              /\ Suspended(notionCall(S0, "databases.retrieve", <<>>, o = "ok"), p,
                           IF o = "retrieve_fails"
                           THEN [my EXCEPT !.at = "done", !.kind = "add",
                                           !.category = name]
                           ELSE IF exists
                           THEN [my EXCEPT !.at = "done", !.kind = "add",
                                           !.category = name, !.ok = TRUE]
                           ELSE [my EXCEPT !.at = "updating", !.kind = "add",
                                           !.category = name, !.opts = options])
           \/ /\ my.at = "updating"
              /\ my.category = name
              /\ o \in {"ok", "update_fails"}
              /\ LET S1 == notionCall(S0, "databases.update", <<name>>, o = "ok")
                 IN  Suspended(IF o = "ok"
                               THEN [S1 EXCEPT !.options = Append(my.opts, name)]
                               ELSE S1,
                               p, [my EXCEPT !.at = "done", !.ok = (o = "ok")])

\* the names addCategory is called with
OverlapNames == { <<"Recipes">>, <<"recipes">>, <<"Travel">> }

InitOverlap ==
    /\ route = "telegram"
    /\ allowedUsers = <<FlightUser>>
    /\ now = 0
    /\ tempLinks = [c \in Chats |-> <<>>]
    /\ searchMode = [c \in Chats |-> FALSE]
    /\ deleteMode = [c \in Chats |-> FALSE]
    /\ newCategoryMode = [c \in Chats |-> FALSE]
    /\ editMode = [c \in Chats |-> <<>>]
    /\ rateLimitMap = [u \in Users |-> <<>>]
    /\ todoRateLimitMap = [u \in Users |-> <<>>]
    /\ pages = <<>>
    /\ options = CATEGORIES
    /\ todos = <<>>
    /\ ev = NoEvent
    /\ sent = <<>>
    /\ answers = <<>>
    /\ calls = <<>>
    /\ steps = <<>>
    /\ recorded = [u \in Users |-> <<>>]
    /\ inflight = [p \in Overlapping |-> NotStarted]

NextOverlap ==
    \E p \in Overlapping, o \in Outcomes :
        \/ \E text \in SharedUrls : inflight[p].kind \in {"none", "url"}
                                    /\ UrlMessageStep(p, text, o)
        \/ inflight[p].kind \in {"none", "press"}
              /\ CategorySelectionStep(p, <<"Work">>, o)
        \/ \E name \in OverlapNames : inflight[p].kind \in {"none", "add"}
                                       /\ AddCategoryStep(p, name, o)

SpecOverlap == InitOverlap /\ [][NextOverlap]_vars

-----------------------------------------------------------------------------
(* Claims about overlapping events, the store's consistency and isolation *)

\* C35: a chat in AwaitingCategoryText mode holds a pending URL: in every
\* state reached by text messages and button presses, the new-category flag
\* of a chat is set only if the chat has a pending URL.
C35_ModeImpliesPendingUrl ==
    \A c \in Chats : newCategoryMode[c] => HasPendingUrl(c)


\* C36: the new-category flow changes the store all-or-nothing: an event
\* that adds a name to the category enumeration also persists a link record
\* with that category, and when no record is persisted the enumeration is as
\* it was before the event.
C36_AllOrNothing ==
    [][(route = "telegram" /\ options' # options)
          => /\ Len(pages') = Len(pages) + 1
             /\ pages'[Len(pages')].category = options'[Len(options')]]_vars


\* a priority selection of the task bot for a record other than the one the
\* chat is editing
OtherRecordSelected(c, d) ==
    /\ d \in PrioritySelections
    /\ editMode[c] # <<>>
    /\ editMode[c][1].pageId # split(d)[2]

\* C37: in the task bot a successful priority selection for record id clears
\* the chat's edit target only when the target refers to record id: the edit
\* of a different record survives the selection.
C37_OtherEditSurvives ==
    [][(/\ route = "todo"
        /\ ev'.kind = "callback"
        /\ Authorized(ev'.user)
        /\ \E d \in PrioritySelections :
              /\ OtherRecordSelected(ev'.chat, d)
              /\ TodoCallback(ev'.chat, ev'.user, d, "ok"))
          => editMode'[ev'.chat] = editMode[ev'.chat]]_vars


\* the priority values of the task record type
TodoPriority == {<<"High">>, <<"Medium">>, <<"Low">>}

\* priority selections whose third part is no priority value
UnknownPrioritySelections ==
    {d \in PrioritySelections : split(d)[3] \notin TodoPriority}

\* C39: every priority written to a task record is High, Medium or Low: a
\* payload priority:<id>:<x> with x outside that set makes no update call and
\* changes no session state.
C39_OnlyKnownPriorities ==
    /\ \A i \in 1..Len(todos) : todos[i].priority \in TodoPriority
    /\ \A i \in 1..Len(calls) :
          (/\ route = "todo"
           /\ calls[i].op = "pages.update"
           /\ Len(calls[i].args) = 3
           /\ calls[i].args[2] = <<"Priority">>)
             => calls[i].args[3] \in TodoPriority


\* the command and list-shortcut texts of the task bot
PrecedenceTexts ==
    {t \in TodoTexts : startsWithSlash(trim(t)) \/ toLowerCase(trim(t)) = <<"l">>}

\* the store calls that create a task or change a task's title
CreatesOrRetitles(callLog) ==
    {i \in 1..Len(callLog) :
        \/ callLog[i].op = "pages.create"
        \/ /\ callLog[i].op = "pages.update"
           /\ Len(callLog[i].args) >= 2
           /\ callLog[i].args[2] = <<"Title">>}

\* C38: in the task bot the text l (any letter case) and every slash command
\* take precedence over an active title edit: they create and retitle no task,
\* l and unknown commands leave the edit target unchanged, and /cancel clears
\* it.
C38_CommandsBeforeTitleEdit ==
    [][(/\ route = "todo"
        /\ ev'.kind = "message"
        /\ PassesChecks(ev'.user)
        /\ EditingTitle(ev'.chat)
        /\ \E t \in PrecedenceTexts : \E o \in TodoTextOutcomes(ev'.user, t) :
              TodoMessage(ev'.chat, ev'.user, t, o))
          => /\ CreatesOrRetitles(calls') = {}
             /\ todos' = todos
             /\ \A t \in PrecedenceTexts \ CancelTexts :
                   (\E o \in TodoTextOutcomes(ev'.user, t) :
                       TodoMessage(ev'.chat, ev'.user, t, o))
                     => editMode'[ev'.chat] = editMode[ev'.chat]
             /\ \A t \in CancelTexts :
                   TodoMessage(ev'.chat, ev'.user, t, "ok")
                     => editMode'[ev'.chat] = <<>>]_vars

C38_Witness ==
    /\ route = "todo"
    /\ ev.kind = "message"
    /\ steps = <<"authorization", "rate_limit", "record", "list">>
    /\ EditingTitle(ev.chat)


\* the session state of a chat and the rate windows of a user, both bots
KeyedByChat(c) ==
    <<tempLinks[c], searchMode[c], deleteMode[c], newCategoryMode[c], editMode[c]>>
KeyedByUser(u) == <<rateLimitMap[u], todoRateLimitMap[u]>>

\* C40: handling an event for chat A changes no pending URL, mode flag or
\* edit target of another chat B, and admitting or rejecting a message of
\* user U changes no rate window of another user V.
C40_KeysIsolated ==
    [][/\ \A b \in Chats \ {ev'.chat} : KeyedByChat(b)' = KeyedByChat(b)
       /\ \A v \in Users \ {ev'.user} : KeyedByUser(v)' = KeyedByUser(v)]_vars

\* an event of chat 1 cleared that chat's session while chat 2 holds a pending
\* URL, a mode flag or an edit target, and the other user has a rate window
C40_Witness ==
    /\ ev.chat = 1
    /\ \E v \in Users \ {ev.user} : Recent(RateWindows[v]) > 0
    /\ answers = <<"Cancelled">>
    /\ KeyedByChat(1) = <<<<>>, FALSE, FALSE, FALSE, <<>>>>
    /\ \/ HasPendingUrl(2) /\ newCategoryMode[2]
       \/ EditingTitle(2)


\* invocation p is a category press about to clear the slot after its save
ClearsAfterSave(p) ==
    /\ inflight[p].kind = "press"
    /\ inflight[p].at = "replying"
    /\ inflight'[p].at = "done"

\* C31: a pending URL is discarded only together with its own save: when a
\* category press has saved URL u and then clears the slot, a different URL
\* stored for the chat by another event while that save was in flight is
\* still the chat's pending URL afterwards.
C31_OnlyOwnUrlDiscarded ==
    [][\A p \in Overlapping :
          (/\ ClearsAfterSave(p)
           /\ HasPendingUrl(SharedChat)
           /\ tempLinks[SharedChat][1] # inflight[p].url)
            => tempLinks'[SharedChat] = tempLinks[SharedChat]]_vars

\* the URL messages that stored url as pending URL, and the link records
\* persisted with it
StoredAsPending(url) ==
    {p \in Overlapping : /\ inflight[p].kind = "url"
                         /\ inflight[p].at = "done"
                         /\ inflight[p].ok
                         /\ inflight[p].url = url}
PersistedWith(url) == {i \in 1..Len(pages) : pages[i].url = url}

\* C32: each stored pending URL results in at most one persisted link
\* record, also when two category presses of the chat are handled by
\* overlapping invocations.
C32_OneRecordPerPendingUrl ==
    \A text \in SharedUrls :
        Cardinality(PersistedWith(extractUrl(text)))
            <= Cardinality(StoredAsPending(extractUrl(text)))

\* the addCategory calls that returned true
AddedTrue == {p \in Overlapping : /\ inflight[p].kind = "add"
                                  /\ inflight[p].at = "done"
                                  /\ inflight[p].ok}

\* C33: addCategory loses no update: after two addCategory calls that both
\* returned true the enumeration holds both names, compared
\* case-insensitively, each exactly once, also when the calls overlapped.
C33_NoLostCategory ==
    \A p \in AddedTrue :
        Cardinality({i \in 1..Len(options) :
                        toLowerCase(options[i]) = toLowerCase(inflight[p].category)}) = 1

\* C34: the sequence numbers of the persisted link records are pairwise
\* distinct in every reachable state.
C34_DistinctNr ==
    \A i, j \in 1..Len(pages) : i # j => pages[i].nr # pages[j].nr

====
